---- MODULE Spec2Model ----
(***************************************************************************)
(* Model of the BOM Collector (PyBoM/collector.py, PyBoM/helpers.py):      *)
(* the retrying fetch with its last-known-good cache, and the update       *)
(* cycle that fetches five endpoints in sequence and post-processes the    *)
(* payloads in place.                                                      *)
(*                                                                         *)
(* Python values are tagged records, so that None, strings, numbers, lists *)
(* and dicts can be compared with each other.  A payload returned by       *)
(* response.json() is an object on the heap: the cache entry, the local    *)
(* variable `data` and the snapshot field hold references to it, and the   *)
(* post-processing mutates the object they share.                          *)
(*                                                                         *)
(* The specifications share the variables.  Spec runs the public methods   *)
(* of one collector one call at a time, and SpecLive is Spec with the      *)
(* fairness of the event loop.  SpecFormat applies the processing of the   *)
(* payloads and the geohash functions to drawn inputs.  SpecOverlap runs   *)
(* the update cycles of two callers that overlap on one collector.         *)
(* SpecCoordinator runs the daily forecast part of the cycles together     *)
(* with the coordinator (__init__.py) that persists today's temperatures.  *)
(***************************************************************************)
EXTENDS Integers, Sequences, FiniteSets, TLC

\* ------------------------------------------------------------------------
\* Bounds of the model
\* ------------------------------------------------------------------------
\* number of HTTP 200 responses with a decodable body the API serves
MaxOk == 1
\* last value of the clock
MaxTime == 2
\* number of HTTP 200 responses the API serves for the daily forecast when
\* the coordinator takes part
MaxDaily == 3

\* ------------------------------------------------------------------------
\* Program constants
\* ------------------------------------------------------------------------
MAX_RETRIES == 3
RETRY_DELAY_BASE == 2
MAX_CACHE_AGE == 86400

\* the seconds between two successive values of the clock, more than
\* MAX_CACHE_AGE
ClockStep == MAX_CACHE_AGE + 1

\* ------------------------------------------------------------------------
\* Python values
\* ------------------------------------------------------------------------
None == [t |-> "None"]
Str(s) == [t |-> "str", v |-> s]
Num(n) == [t |-> "num", v |-> n]
Bool(b) == [t |-> "bool", v |-> b]
Dict(f) == [t |-> "dict", v |-> f]
List(q) == [t |-> "list", v |-> q]
EmptyDict == Dict(<<>>)
\* a heap slot that holds no object
Free == [t |-> "free"]

IsDict(x) == x.t = "dict"
IsList(x) == x.t = "list"
IsNum(x) == x.t = "num"

\* bool(x)
Truthy(x) ==
    CASE x.t = "None" -> FALSE
      [] x.t = "dict" -> DOMAIN x.v # {}
      [] x.t = "list" -> Len(x.v) > 0
      [] x.t = "str" -> x.v # ""
      [] x.t = "num" -> x.v # 0
      [] x.t = "bool" -> x.v
      [] OTHER -> TRUE

\* key in x, for a dict x
Has(x, key) == IsDict(x) /\ key \in DOMAIN x.v
\* the exception x[key] raises, "none" when it raises nothing
SubscriptError(x, key) ==
    IF ~IsDict(x) THEN "TypeError"
    ELSE IF key \notin DOMAIN x.v THEN "KeyError" ELSE "none"
\* x.get(key) of a dict x
DictGet(x, key) == IF key \in DOMAIN x.v THEN x.v[key] ELSE None
\* x[key] = val
DictSet(x, key, val) ==
    Dict([y \in DOMAIN x.v \cup {key} |-> IF y = key THEN val ELSE x.v[y]])
\* x without key
DictDel(x, key) == Dict([y \in DOMAIN x.v \ {key} |-> x.v[y]])

\* ------------------------------------------------------------------------
\* Post-processing.  A processing state is [d |-> value, exc |-> name]: the
\* value as mutated so far and the exception raised ("none" when none was).
\* ------------------------------------------------------------------------
Ok(x) == [d |-> x, exc |-> "none"]
Raise(x, e) == [d |-> x, exc |-> e]

\* helpers.flatten_dict, one key of the loop
FlattenKey(st, key) ==
    IF st.exc # "none" THEN st
    ELSE IF SubscriptError(st.d, key) # "none"
         THEN Raise(st.d, SubscriptError(st.d, key))
    ELSE IF st.d.v[key] = None THEN st
    ELSE LET flatten == st.d.v[key]
             popped == DictDel(st.d, key)
         IN  IF ~IsDict(flatten) THEN Raise(popped, "AttributeError")
             ELSE LET NewKeys == {key \o "_" \o ik : ik \in DOMAIN flatten.v}
                      Inner(y) == CHOOSE ik \in DOMAIN flatten.v :
                                      key \o "_" \o ik = y
                  IN  Ok(Dict([y \in (DOMAIN popped.v) \cup NewKeys |->
                                  IF y \in NewKeys THEN flatten.v[Inner(y)]
                                  ELSE popped.v[y]]))

RECURSIVE FlattenFrom(_, _, _)
FlattenFrom(keys, i, st) ==
    IF i > Len(keys) THEN st
    ELSE FlattenFrom(keys, i + 1, FlattenKey(st, keys[i]))

\* helpers.flatten_dict(keys, dict)
flatten_dict(keys, dict) == FlattenFrom(keys, 1, Ok(dict))

\* Numbers of an observations payload: temperatures are in hundredths of a
\* degree, humidity in percent.
\* round(x, 1) of a value in hundredths (no drawn value is at a tie)
Round1(x) == ((x + 5) \div 10) * 10

\* math.log(humidity / 100.0), in units of 1e-5, for the humidities drawn
LogPercent(humidity) ==
    CASE humidity = 35 -> -104982
      [] humidity = 50 -> -69315
      [] humidity = 100 -> 0

\* a * temp / (b + temp), in units of 1e-5, with a = 17.27 and b = 237.7
TempTerm(temp) ==
    LET n == 172700 * temp
        d == 23770 + temp
    IN  (n \div d) * 10 + ((n % d) * 10) \div d

\* gamma = (a * temp / (b + temp)) + math.log(humidity / 100.0)
GammaNoLog(temp, humidity) == TempTerm(temp)
Gamma(temp, humidity) == TempTerm(temp) + LogPercent(humidity)

\* Magnus-Tetens dew point (b * gamma) / (a - gamma), rounded to 1 decimal,
\* in hundredths of a degree
MagnusTetens(temp, humidity) ==
    LET gamma == Gamma(temp, humidity)
        den == 1727000 - gamma
    IN  ((2 * 2377 * gamma + den) \div (2 * den)) * 10

\* the computation raises TypeError, ValueError or ZeroDivisionError
DewPointFails(temp, humidity) ==
    \/ ~IsNum(temp) \/ ~IsNum(humidity)
    \/ 23770 + temp.v = 0
    \/ humidity.v <= 0
    \/ 1727000 - Gamma(temp.v, humidity.v) = 0

\* async_update, observations: wind
ObsWind(st) ==
    IF st.exc # "none" THEN st
    ELSE IF SubscriptError(st.d, "wind") # "none"
         THEN Raise(st.d, SubscriptError(st.d, "wind"))
    ELSE IF st.d.v["wind"] # None THEN flatten_dict(<<"wind">>, st.d)
    ELSE Ok(DictSet(DictSet(DictSet(st.d,
                "wind_direction", Str("unavailable")),
                "wind_speed_kilometre", Str("unavailable")),
                "wind_speed_knot", Str("unavailable")))

\* async_update, observations: gust
ObsGustNoSentinel(st) ==
    IF st.exc # "none" THEN st
    ELSE IF SubscriptError(st.d, "gust") # "none"
         THEN Raise(st.d, SubscriptError(st.d, "gust"))
    ELSE IF st.d.v["gust"] # None THEN flatten_dict(<<"gust">>, st.d)
    ELSE st
ObsGust(st) ==
    IF st.exc # "none" THEN st
    ELSE IF SubscriptError(st.d, "gust") # "none"
         THEN Raise(st.d, SubscriptError(st.d, "gust"))
    ELSE IF st.d.v["gust"] # None THEN flatten_dict(<<"gust">>, st.d)
    ELSE Ok(DictSet(DictSet(st.d,
                "gust_speed_kilometre", Str("unavailable")),
                "gust_speed_knot", Str("unavailable")))

\* async_update, observations: dew point
ObsDewPointUncaught(st) ==
    IF st.exc # "none" THEN st
    ELSE LET temp == DictGet(st.d, "temp")
             humidity == DictGet(st.d, "humidity")
         IN  IF temp # None /\ humidity # None
             THEN IF DewPointFails(temp, humidity)
                  THEN Raise(st.d, "ValueError")
                  ELSE Ok(DictSet(st.d, "dew_point",
                              Num(MagnusTetens(temp.v, humidity.v))))
             ELSE Ok(DictSet(st.d, "dew_point", None))
ObsDewPoint(st) ==
    IF st.exc # "none" THEN st
    ELSE LET temp == DictGet(st.d, "temp")
             humidity == DictGet(st.d, "humidity")
         IN  IF temp # None /\ humidity # None
             THEN IF DewPointFails(temp, humidity)
                  THEN Ok(DictSet(st.d, "dew_point", None))
                  ELSE Ok(DictSet(st.d, "dew_point",
                              Num(MagnusTetens(temp.v, humidity.v))))
             ELSE Ok(DictSet(st.d, "dew_point", None))

\* async_update, observations: delta-T
ObsDeltaTUnrounded(st) ==
    IF st.exc # "none" THEN st
    ELSE LET temp == DictGet(st.d, "temp")
             dew_point == DictGet(st.d, "dew_point")
         IN  IF temp # None /\ dew_point # None
             THEN IF ~IsNum(temp) \/ ~IsNum(dew_point)
                  THEN Ok(DictSet(st.d, "delta_t", None))
                  ELSE Ok(DictSet(st.d, "delta_t", Num(temp.v - dew_point.v)))
             ELSE Ok(DictSet(st.d, "delta_t", None))
ObsDeltaT(st) ==
    IF st.exc # "none" THEN st
    ELSE LET temp == DictGet(st.d, "temp")
             dew_point == DictGet(st.d, "dew_point")
         IN  IF temp # None /\ dew_point # None
             THEN IF ~IsNum(temp) \/ ~IsNum(dew_point)
                  THEN Ok(DictSet(st.d, "delta_t", None))
                  ELSE Ok(DictSet(st.d, "delta_t",
                              Num(Round1(temp.v - dew_point.v))))
             ELSE Ok(DictSet(st.d, "delta_t", None))

\* async_update, the processing of a truthy observations payload o
ProcessObservationsSkipped(o) == Ok(o)
ProcessObservations(o) ==
    IF SubscriptError(o, "data") # "none"
    THEN Raise(o, SubscriptError(o, "data"))
    ELSE LET r == ObsDeltaT(ObsDewPoint(ObsGust(ObsWind(Ok(o.v["data"])))))
         IN  [d |-> DictSet(o, "data", r.d), exc |-> r.exc]

\* ------------------------------------------------------------------------
\* Geohash.  A coordinate is either a decimal number of degrees, held in
\* units of 1e-4 degree (Deg), or a point of the bisection grid, held as
\* its distance from the lower end of the axis in ticks of 1/65536 of the
\* axis (Grid): every interval end and every centre the two functions reach
\* up to DEFAULT_PRECISION characters is a whole number of ticks.  A geohash
\* is the sequence of its characters.
\* ------------------------------------------------------------------------
DEFAULT_PRECISION == 6
TICKS == 65536
Deg(v) == [unit |-> "deg", v |-> v]
Grid(v) == [unit |-> "grid", v |-> v]

base32 == <<"0", "1", "2", "3", "4", "5", "6", "7", "8", "9", "b", "c", "d",
            "e", "f", "g", "h", "j", "k", "m", "n", "p", "q", "r", "s", "t",
            "u", "v", "w", "x", "y", "z">>
bits == <<16, 8, 4, 2, 1>>

\* coordinate > mid, for a mid in ticks of the axis (lon: 360 degrees wide
\* from -180, lat: 180 degrees wide from -90)
Above(coordinate, axis, mid) ==
    IF coordinate.unit = "grid" THEN coordinate.v > mid
    ELSE IF axis = "lon"
         THEN (coordinate.v + 1800000) * 512 > mid * 28125
         ELSE (coordinate.v + 900000) * 1024 > mid * 28125

\* one pass of the loop of geohash_encode
EncodeLatitudeFirst(latitude, longitude, st) ==
    LET lon_mid == (st.lon_interval[1] + st.lon_interval[2]) \div 2
        lat_mid == (st.lat_interval[1] + st.lat_interval[2]) \div 2
        up == IF ~st.even THEN Above(longitude, "lon", lon_mid)
              ELSE Above(latitude, "lat", lat_mid)
        ch == IF up THEN st.ch + bits[st.bit + 1] ELSE st.ch
    IN  [lat_interval |->
            IF ~st.even THEN st.lat_interval
            ELSE IF up THEN <<lat_mid, st.lat_interval[2]>>
                 ELSE <<st.lat_interval[1], lat_mid>>,
         lon_interval |->
            IF st.even THEN st.lon_interval
            ELSE IF up THEN <<lon_mid, st.lon_interval[2]>>
                 ELSE <<st.lon_interval[1], lon_mid>>,
         even |-> ~st.even,
         bit |-> IF st.bit < 4 THEN st.bit + 1 ELSE 0,
         ch |-> IF st.bit < 4 THEN ch ELSE 0,
         geohash |-> IF st.bit < 4 THEN st.geohash
                     ELSE Append(st.geohash, base32[ch + 1])]
EncodeStep(latitude, longitude, st) ==
    LET lon_mid == (st.lon_interval[1] + st.lon_interval[2]) \div 2
        lat_mid == (st.lat_interval[1] + st.lat_interval[2]) \div 2
        up == IF st.even THEN Above(longitude, "lon", lon_mid)
              ELSE Above(latitude, "lat", lat_mid)
        ch == IF up THEN st.ch + bits[st.bit + 1] ELSE st.ch
    IN  [lat_interval |->
            IF st.even THEN st.lat_interval
            ELSE IF up THEN <<lat_mid, st.lat_interval[2]>>
                 ELSE <<st.lat_interval[1], lat_mid>>,
         lon_interval |->
            IF ~st.even THEN st.lon_interval
            ELSE IF up THEN <<lon_mid, st.lon_interval[2]>>
                 ELSE <<st.lon_interval[1], lon_mid>>,
         even |-> ~st.even,
         bit |-> IF st.bit < 4 THEN st.bit + 1 ELSE 0,
         ch |-> IF st.bit < 4 THEN ch ELSE 0,
         geohash |-> IF st.bit < 4 THEN st.geohash
                     ELSE Append(st.geohash, base32[ch + 1])]

RECURSIVE EncodeFrom(_, _, _, _)
EncodeFrom(latitude, longitude, precision, st) ==
    IF Len(st.geohash) >= precision THEN st.geohash
    ELSE EncodeFrom(latitude, longitude, precision,
                    EncodeStep(latitude, longitude, st))

\* helpers.geohash_encode(latitude, longitude, precision)
geohash_encode(latitude, longitude, precision) ==
    EncodeFrom(latitude, longitude, precision,
               [lat_interval |-> <<0, TICKS>>, lon_interval |-> <<0, TICKS>>,
                even |-> TRUE, bit |-> 0, ch |-> 0, geohash |-> <<>>])

\* base32.index(c)
Index(c) == (CHOOSE i \in 1..Len(base32) : base32[i] = c) - 1

\* one pass of the inner loop of geohash_decode, for the bit mask of idx
DecodeStep(idx, mask, st) ==
    LET lon_mid == (st.lon_interval[1] + st.lon_interval[2]) \div 2
        lat_mid == (st.lat_interval[1] + st.lat_interval[2]) \div 2
        up == (idx \div mask) % 2 = 1
    IN  [lat_interval |->
            IF st.even THEN st.lat_interval
            ELSE IF up THEN <<lat_mid, st.lat_interval[2]>>
                 ELSE <<st.lat_interval[1], lat_mid>>,
         lon_interval |->
            IF ~st.even THEN st.lon_interval
            ELSE IF up THEN <<lon_mid, st.lon_interval[2]>>
                 ELSE <<st.lon_interval[1], lon_mid>>,
         even |-> ~st.even]

RECURSIVE DecodeFrom(_, _, _, _)
DecodeFrom(geohash, i, j, st) ==
    IF i > Len(geohash) THEN st
    ELSE IF j > Len(bits) THEN DecodeFrom(geohash, i + 1, 1, st)
    ELSE DecodeFrom(geohash, i, j + 1,
                    DecodeStep(Index(geohash[i]), bits[j], st))

\* the point geohash_decode returns for the box it ends with
BoxLowerCorner(st) ==
    [latitude |-> Grid(st.lat_interval[1]),
     longitude |-> Grid(st.lon_interval[1])]
BoxCentre(st) ==
    [latitude |-> Grid((st.lat_interval[1] + st.lat_interval[2]) \div 2),
     longitude |-> Grid((st.lon_interval[1] + st.lon_interval[2]) \div 2)]

\* helpers.geohash_decode(geohash)
geohash_decode(geohash) ==
    BoxCentre(DecodeFrom(geohash, 1, 1,
                  [lat_interval |-> <<0, TICKS>>,
                   lon_interval |-> <<0, TICKS>>, even |-> TRUE]))

\* a str argument, as the sequence of its characters
Text(chars) == [t |-> "text", v |-> chars]

\* Collector.__init__, the geohash field: geohash is None or a str
GeohashField(latitude, longitude, geohash) ==
    IF geohash # None /\ Len(geohash.v) > 0
    THEN SubSeq(geohash.v, 1,
                IF Len(geohash.v) < 6 THEN Len(geohash.v) ELSE 6)
    ELSE geohash_encode(latitude, longitude, 6)

\* ------------------------------------------------------------------------
\* Forecast formatting
\* ------------------------------------------------------------------------
\* const.MAP_MDI_ICON, the descriptor -> icon table (an excerpt)
MAP_MDI_ICON ==
    ("clear" :> "mdi:weather-night") @@
    ("cloudy" :> "mdi:weather-cloudy") @@
    ("mostly_sunny" :> "mdi:weather-sunny") @@
    ("rain" :> "mdi:weather-pouring") @@
    ("sunny" :> "mdi:weather-sunny")

\* the text between min and max in the daily rain_amount_range (the bytes of
\* the source literal, written in ASCII)
DAILY_RANGE_SEP == "<a-circumflex><euro><left-quote>"
\* the text between min and max in the hourly rain_amount_range
HOURLY_RANGE_SEP == " to "

\* str(x) as an f-string renders it
PyStr(x) ==
    CASE x.t = "None" -> "None"
      [] x.t = "str" -> x.v
      [] x.t = "num" -> ToString(x.v)
      [] x.t = "bool" -> IF x.v THEN "True" ELSE "False"
      [] OTHER -> "<object>"

\* the exception len(x) raises
LenError(x) == IF x.t \in {"list", "dict", "str"} THEN "none" ELSE "TypeError"
\* len(x)
PyLen(x) == IF IsList(x) THEN Len(x.v) ELSE IF IsDict(x) THEN Cardinality(DOMAIN x.v) ELSE 1
\* the exception `key in x` raises
ContainsError(x) == IF x.t \in {"list", "dict", "str"} THEN "none" ELSE "TypeError"
\* key in x
Contains(x, key) ==
    IF IsDict(x) THEN key \in DOMAIN x.v
    ELSE IF IsList(x) THEN \E i \in 1..Len(x.v) : x.v[i] = Str(key)
    ELSE x = Str(key)
\* the exception x[i] raises for an index i below len(x)
ItemError(x) == IF x.t \in {"list", "str"} THEN "none" ELSE "KeyError"

\* the icon override shared by the two formatters: the new icon_descriptor
IconOverrideNightOnly(is_night, icon_desc) ==
    IF Truthy(is_night) /\ icon_desc \in {Str("sunny"), Str("mostly_sunny")}
    THEN Str("clear")
    ELSE icon_desc
IconOverride(is_night, icon_desc) ==
    IF Truthy(is_night) /\ icon_desc \in {Str("sunny"), Str("mostly_sunny")}
    THEN Str("clear")
    ELSE IF ~Truthy(is_night) /\ icon_desc = Str("clear")
    THEN Str("sunny")
    ELSE icon_desc

\* d["icon_descriptor"] = ... when the override rewrites it
ApplyIcon(d, is_night) ==
    LET icon_desc == DictGet(d, "icon_descriptor")
    IN  IF IconOverride(is_night, icon_desc) # icon_desc
        THEN DictSet(d, "icon_descriptor", IconOverride(is_night, icon_desc))
        ELSE d

\* d["mdi_icon"] = MAP_MDI_ICON[d["icon_descriptor"]]
SetMdiIcon(st) ==
    IF st.exc # "none" THEN st
    ELSE IF SubscriptError(st.d, "icon_descriptor") # "none"
         THEN Raise(st.d, SubscriptError(st.d, "icon_descriptor"))
    ELSE LET desc == st.d.v["icon_descriptor"]
         IN  IF desc.t # "str" \/ desc.v \notin DOMAIN MAP_MDI_ICON
             THEN Raise(st.d, "KeyError")
             ELSE Ok(DictSet(st.d, "mdi_icon", Str(MAP_MDI_ICON[desc.v])))

\* the rain_amount_range derivation, with the formatter's joining text
RainRangeAsText(st, sep) ==
    IF st.exc # "none" THEN st
    ELSE IF SubscriptError(st.d, "rain_amount_max") # "none"
         THEN Raise(st.d, SubscriptError(st.d, "rain_amount_max"))
    ELSE IF SubscriptError(st.d, "rain_amount_min") # "none"
         THEN Raise(st.d, SubscriptError(st.d, "rain_amount_min"))
    ELSE IF st.d.v["rain_amount_max"] = None
         THEN Ok(DictSet(DictSet(st.d,
                     "rain_amount_max", st.d.v["rain_amount_min"]),
                     "rain_amount_range",
                     Str(PyStr(st.d.v["rain_amount_min"]))))
         ELSE Ok(DictSet(st.d, "rain_amount_range",
                     Str(PyStr(st.d.v["rain_amount_min"]) \o sep \o
                         PyStr(st.d.v["rain_amount_max"]))))
RainRange(st, sep) ==
    IF st.exc # "none" THEN st
    ELSE IF SubscriptError(st.d, "rain_amount_max") # "none"
         THEN Raise(st.d, SubscriptError(st.d, "rain_amount_max"))
    ELSE IF SubscriptError(st.d, "rain_amount_min") # "none"
         THEN Raise(st.d, SubscriptError(st.d, "rain_amount_min"))
    ELSE IF st.d.v["rain_amount_max"] = None
         THEN Ok(DictSet(DictSet(st.d,
                     "rain_amount_max", st.d.v["rain_amount_min"]),
                     "rain_amount_range", st.d.v["rain_amount_min"]))
         ELSE Ok(DictSet(st.d, "rain_amount_range",
                     Str(PyStr(st.d.v["rain_amount_min"]) \o sep \o
                         PyStr(st.d.v["rain_amount_max"]))))

\* flatten_dict(["amount"], d["rain"]): d["rain"] is mutated in place
FlattenRainAmount(st) ==
    IF st.exc # "none" THEN st
    ELSE IF SubscriptError(st.d, "rain") # "none"
         THEN Raise(st.d, SubscriptError(st.d, "rain"))
    ELSE LET r == flatten_dict(<<"amount">>, st.d.v["rain"])
         IN  [d |-> DictSet(st.d, "rain", r.d), exc |-> r.exc]

\* flatten_dict(keys, d) as a step of a formatter
FlattenStep(st, keys) == IF st.exc # "none" THEN st ELSE flatten_dict(keys, st.d)

\* format_daily_forecast_data, day 0: the `now` fields and the icon override
DailyNow(st) ==
    IF st.exc # "none" THEN st
    ELSE LET now_data == IF Has(st.d, "now") THEN st.d.v["now"] ELSE EmptyDict
             d0 == DictDel(st.d, "now")
         IN  IF Truthy(now_data) /\ ~IsDict(now_data)
             THEN Raise(d0, "AttributeError")
             ELSE IF Truthy(now_data)
             THEN Ok(ApplyIcon(
                     DictSet(DictSet(DictSet(DictSet(d0,
                         "now_label", DictGet(now_data, "now_label")),
                         "temp_now", DictGet(now_data, "temp_now")),
                         "later_label", DictGet(now_data, "later_label")),
                         "temp_later", DictGet(now_data, "temp_later")),
                     DictGet(now_data, "is_night")))
             ELSE Ok(ApplyIcon(d0, Bool(FALSE)))

\* format_daily_forecast_data, the body of the loop for one day
FormatDailyEntry(d, day) ==
    LET flat == FlattenStep(FlattenRainAmount(Ok(d)),
                            <<"rain", "uv", "astronomical">>)
        nowed == IF day = 0 THEN DailyNow(flat) ELSE flat
    IN  RainRange(SetMdiIcon(nowed), DAILY_RANGE_SEP)

\* format_hourly_forecast_data, the body of the loop for one hour
FormatHourlyEntryIconFirst(d, hour) ==
    IF ~IsDict(d) THEN Raise(d, "AttributeError")
    ELSE LET iconed == SetMdiIcon(Ok(d))
             over == Ok(ApplyIcon(iconed.d, DictGet(d, "is_night")))
             flat == FlattenStep(FlattenRainAmount(
                         IF iconed.exc # "none" THEN iconed ELSE over),
                         <<"rain", "wind">>)
         IN  RainRange(flat, HOURLY_RANGE_SEP)
FormatHourlyEntry(d, hour) ==
    IF ~IsDict(d) THEN Raise(d, "AttributeError")
    ELSE LET iconed == SetMdiIcon(Ok(ApplyIcon(d, DictGet(d, "is_night"))))
             flat == FlattenStep(FlattenRainAmount(iconed), <<"rain", "wind">>)
         IN  RainRange(flat, HOURLY_RANGE_SEP)

\* the loop over the entries: entry i (1-based) is day or hour i - 1
RECURSIVE FormatFrom(_, _, _)
FormatFrom(entries, i, daily) ==
    IF i > Len(entries) THEN Ok(entries)
    ELSE LET r == IF daily THEN FormatDailyEntry(entries[i], i - 1)
                  ELSE FormatHourlyEntry(entries[i], i - 1)
             done == [entries EXCEPT ![i] = r.d]
         IN  IF r.exc # "none" THEN Raise(done, r.exc)
             ELSE FormatFrom(done, i + 1, daily)

\* format_daily_forecast_data / format_hourly_forecast_data on the snapshot o
FormatForecast(o, daily) ==
    IF ~Truthy(o) THEN Ok(o)
    ELSE IF ContainsError(o) # "none" THEN Raise(o, ContainsError(o))
    ELSE IF ~Contains(o, "data") THEN Ok(o)
    ELSE IF SubscriptError(o, "data") # "none"
         THEN Raise(o, SubscriptError(o, "data"))
    ELSE IF LenError(o.v["data"]) # "none" THEN Raise(o, LenError(o.v["data"]))
    ELSE IF PyLen(o.v["data"]) = 0 THEN Ok(o)
    ELSE IF ~IsList(o.v["data"]) THEN Raise(o, ItemError(o.v["data"]))
    ELSE LET r == FormatFrom(o.v["data"].v, 1, daily)
         IN  [d |-> DictSet(o, "data", List(r.d)), exc |-> r.exc]

format_daily_forecast_data(o) == FormatForecast(o, TRUE)
format_hourly_forecast_data(o) == FormatForecast(o, FALSE)

\* async_update, daily: keep today's temp_min / temp_max of the previous
\* snapshot old when the new payload data has null there
PreserveTempNever(old_today, new_today, key) == new_today
PreserveTemp(old_today, new_today, key) ==
    IF DictGet(new_today, key) = None /\ DictGet(old_today, key) # None
    THEN DictSet(new_today, key, old_today.v[key])
    ELSE new_today

DailyMerge(old, data) ==
    IF ~Truthy(old) THEN Ok(data)
    ELSE IF ContainsError(old) # "none" THEN Raise(data, ContainsError(old))
    ELSE IF ~Contains(old, "data") THEN Ok(data)
    ELSE IF SubscriptError(old, "data") # "none"
         THEN Raise(data, SubscriptError(old, "data"))
    ELSE IF LenError(old.v["data"]) # "none"
         THEN Raise(data, LenError(old.v["data"]))
    ELSE IF PyLen(old.v["data"]) = 0 THEN Ok(data)
    ELSE IF ContainsError(data) # "none" THEN Raise(data, ContainsError(data))
    ELSE IF ~Contains(data, "data") THEN Ok(data)
    ELSE IF SubscriptError(data, "data") # "none"
         THEN Raise(data, SubscriptError(data, "data"))
    ELSE IF LenError(data.v["data"]) # "none"
         THEN Raise(data, LenError(data.v["data"]))
    ELSE IF PyLen(data.v["data"]) = 0 THEN Ok(data)
    ELSE IF ~IsList(old.v["data"]) THEN Raise(data, ItemError(old.v["data"]))
    ELSE IF ~IsList(data.v["data"]) THEN Raise(data, ItemError(data.v["data"]))
    ELSE LET old_today == old.v["data"].v[1]
             new_today == data.v["data"].v[1]
         IN  IF ~IsDict(new_today) \/ ~IsDict(old_today)
             THEN Raise(data, "AttributeError")
             ELSE Ok(DictSet(data, "data",
                     List([data.v["data"].v EXCEPT ![1] =
                         PreserveTemp(old_today,
                             PreserveTemp(old_today, new_today, "temp_min"),
                             "temp_max")])))

\* async_update, the processing of a truthy daily payload data, old being
\* the previous snapshot: the merge, the assignment, the formatting
ProcessDaily(old, data) ==
    LET merged == DailyMerge(old, data)
    IN  IF merged.exc # "none"
        THEN [d |-> merged.d, exc |-> merged.exc, assigned |-> FALSE]
        ELSE [d |-> format_daily_forecast_data(merged.d).d,
              exc |-> format_daily_forecast_data(merged.d).exc,
              assigned |-> TRUE]

\* async_update, the processing of a truthy hourly payload data
ProcessHourly(data) ==
    [d |-> format_hourly_forecast_data(data).d,
     exc |-> format_hourly_forecast_data(data).exc,
     assigned |-> TRUE]

\* ------------------------------------------------------------------------
\* The API: the decodable bodies it serves per endpoint
\* ------------------------------------------------------------------------
Keys == {"locations", "observations", "daily_forecasts", "hourly_forecasts",
         "warnings"}

LocationsBodies ==
    { EmptyDict,
      Dict("data" :> Dict(("name" :> Str("Sydney")) @@
                          ("timezone" :> Str("Australia/Sydney")))) }

ObservationsBodies ==
    { Dict("data" :> Dict(
          ("temp" :> Num(2000)) @@ ("humidity" :> Num(50)) @@
          ("wind" :> Dict(("direction" :> Str("N")) @@
                          ("speed_kilometre" :> Num(10)) @@
                          ("speed_knot" :> Num(5)))) @@
          ("gust" :> Dict(("speed_kilometre" :> Num(20)) @@
                          ("speed_knot" :> Num(11)))))),
      Dict("data" :> Dict(
          ("temp" :> Num(3000)) @@ ("humidity" :> Num(0)) @@
          ("wind" :> None) @@ ("gust" :> None))) }

DailyEntry(temp_min, temp_max, rain_max, icon, is_night) ==
    Dict(("temp_min" :> temp_min) @@ ("temp_max" :> temp_max) @@
         ("icon_descriptor" :> Str(icon)) @@
         ("rain" :> Dict(("chance" :> Num(60)) @@
                         ("amount" :> Dict(("min" :> Num(2)) @@
                                           ("max" :> rain_max) @@
                                           ("units" :> Str("mm")))))) @@
         ("uv" :> Dict("max_index" :> Num(7))) @@
         ("astronomical" :> None) @@
         ("now" :> Dict(("is_night" :> Bool(is_night)) @@
                        ("now_label" :> Str("Overnight min")) @@
                        ("temp_now" :> Num(120)) @@
                        ("later_label" :> Str("Tomorrow's max")) @@
                        ("temp_later" :> Num(250)))))

DailyBodies ==
    { Dict("data" :> List(<<DailyEntry(Num(120), Num(250), Num(8), "sunny", TRUE)>>)),
      Dict("data" :> List(<<DailyEntry(None, None, None, "clear", FALSE)>>)) }

HourlyEntry(rain_max, icon, is_night) ==
    Dict(("is_night" :> Bool(is_night)) @@
         ("icon_descriptor" :> Str(icon)) @@
         ("rain" :> Dict(("chance" :> Num(60)) @@
                         ("amount" :> Dict(("min" :> Num(2)) @@
                                           ("max" :> rain_max) @@
                                           ("units" :> Str("mm")))))) @@
         ("wind" :> Dict(("direction" :> Str("N")) @@
                         ("speed_kilometre" :> Num(10)))))

HourlyBodies ==
    { Dict("data" :> List(<<HourlyEntry(Num(8), "mostly_sunny", TRUE),
                            HourlyEntry(None, "clear", FALSE)>>)) }

WarningsBodies ==
    { EmptyDict,
      Dict("data" :> List(<<Dict("type" :> Str("sheep_graziers_warning"))>>)) }

Bodies(key) ==
    CASE key = "locations" -> LocationsBodies
      [] key = "observations" -> ObservationsBodies
      [] key = "daily_forecasts" -> DailyBodies
      [] key = "hourly_forecasts" -> HourlyBodies
      [] key = "warnings" -> WarningsBodies

\* how one GET ends: a 200 with a body that decodes, another status, the
\* connection failing or timing out, or a 200 whose body response.json()
\* rejects with ContentTypeError (a ClientError) or JSONDecodeError (a
\* ValueError)
Kinds == {"ok", "non200", "ClientError", "TimeoutError", "ContentTypeError",
          "JSONDecodeError"}
\* the HTTP status of the response, 0 when there is none
Status(kind) ==
    CASE kind \in {"ok", "ContentTypeError", "JSONDecodeError"} -> 200
      [] kind = "non200" -> 500
      [] OTHER -> 0

\* ------------------------------------------------------------------------
\* State
\* ------------------------------------------------------------------------
VARIABLES
    snapshot,    \* the five snapshot fields: key -> reference or None
    cache,       \* self._cache: key -> [data, timestamp]
    heap,        \* reference -> the payload object it denotes
    now,         \* time.time()
    session,     \* the aiohttp.ClientSession of the running call
    caller,      \* the public method running (or the last one that ran)
    pc,          \* where the running call is
    cache_key,   \* _fetch_with_retry: cache_key
    attempt,     \* _fetch_with_retry: attempt
    data,        \* the value _fetch_with_retry returns
    wait_time,   \* _fetch_with_retry: wait_time
    response,    \* the response of the last GET
    log,         \* the GETs of the running _fetch_with_retry call, in order
    sleeps,      \* the asyncio.sleep durations of the running call, in order
    issued,      \* the endpoints requested by the running cycle, in order
    start,       \* the snapshot fields' values when the running cycle started
    nothing,     \* the endpoints whose fetch returned None in this cycle
    exc,         \* the exception raised in the running cycle
    propagated,  \* an exception has left a public method
    served,      \* number of decodable 200 responses served so far
    input,       \* formatting on its own: the snapshot and payload given
    output,      \* formatting on its own: the snapshot field it leaves
    tasks,       \* overlapping calls: the frame of each caller
    offline,     \* every GET of the running cycle failed to connect
    coordinator, \* the BomDataUpdateCoordinator of the config entry
    returned     \* the day-0 temperatures the API has returned

\* the state of the formatters applied on their own
funVars == <<input, output>>
\* the state of the calls that overlap on one collector
conVars == <<tasks>>
\* the state of the coordinator and the temperatures it persists
perVars == <<coordinator, returned>>

vars == <<snapshot, cache, heap, now, session, caller, pc, cache_key, attempt,
          data, wait_time, response, log, sleeps, issued, start, nothing, exc,
          propagated, served, input, output, tasks, offline, coordinator,
          returned>>

Ref(key, g) == [t |-> "ref", k |-> key, g |-> g]
Refs == {Ref(key, g) : key \in Keys, g \in 0..1}

\* the object a reference denotes
Val(h, r) == IF r = None THEN None ELSE h[r]

\* the snapshot fields
locations_data == snapshot["locations"]
observations_data == snapshot["observations"]
daily_forecasts_data == snapshot["daily_forecasts"]
hourly_forecasts_data == snapshot["hourly_forecasts"]
warnings_data == snapshot["warnings"]

\* the values of the snapshot fields
View(snap, h) == [key \in Keys |-> Val(h, snap[key])]

\* a reference for a new payload of key: one the snapshot field does not hold
NewRef(key) ==
    IF snapshot[key] # None /\ snapshot[key].g = 0 THEN Ref(key, 1)
    ELSE Ref(key, 0)

\* the heap without the objects nothing refers to any more
Collect(h, snap, cch) ==
    [r \in Refs |->
        IF \E key \in Keys : snap[key] = r \/ cch[key].data = r
        THEN h[r] ELSE Free]

\* Collector.__init__: the collector as constructed
Constructed ==
    /\ snapshot = [key \in Keys |-> None]
    /\ cache = [key \in Keys |-> [data |-> None, timestamp |-> 0]]
    /\ heap = [r \in Refs |-> Free]
    /\ now = 1
    /\ session = "closed"
    /\ caller = "none"
    /\ pc = "idle"
    /\ cache_key = "none"
    /\ attempt = 0
    /\ data = None
    /\ wait_time = 0
    /\ response = [status |-> 0, body |-> None, at |-> 0]
    /\ log = <<>>
    /\ sleeps = <<>>
    /\ issued = <<>>
    /\ start = [key \in Keys |-> None]
    /\ nothing = {}
    /\ exc = "none"
    /\ propagated = FALSE
    /\ served = 0
    /\ offline = FALSE

\* no formatter has been given anything
NoInput == [fn |-> "none", old |-> None, new |-> None]
\* the formatters are not applied on their own
FormatIdle == input = NoInput /\ output = None

\* the callers that can run a method of one collector at the same time: the
\* coordinator's refresh and an entity's own async_update
Tasks == {"coordinator", "entity"}
\* the frame of a caller that runs nothing: where it is, the key and the
\* attempt of its _fetch_with_retry, the value that returns
Idle == [pc |-> "idle", cache_key |-> "none", attempt |-> 0, data |-> None]
\* no calls overlap
NoTasks == tasks = [task \in Tasks |-> Idle]

\* the day-0 temperatures the API has returned: its last payload's, and the
\* most recent that were not null
NoTemps == [last_min |-> None, last_max |-> None,
            temp_min |-> None, temp_max |-> None]
\* async_setup_entry has not created the coordinator: what its storage holds
\* is stored, its _last_valid_temps is last_valid_temps, saved tells that its
\* last update saved them
NotCreated(stored) ==
    [state |-> "none", store |-> stored, last_valid_temps |-> EmptyDict,
     saved |-> FALSE]
\* no coordinator takes part
NoCoordinator == coordinator = NotCreated(None) /\ returned = NoTemps

Init == Constructed /\ FormatIdle /\ NoTasks /\ NoCoordinator

\* ------------------------------------------------------------------------
\* _fetch_with_retry
\* ------------------------------------------------------------------------
\* for attempt in range(MAX_RETRIES)
InRangeOneMore(a) == a <= MAX_RETRIES
InRange(a) == a < MAX_RETRIES

\* wait_time = RETRY_DELAY_BASE ** attempt
WaitTimeNext(a) == RETRY_DELAY_BASE ^ (a + 1)
WaitTime(a) == RETRY_DELAY_BASE ^ a

\* except (aiohttp.ClientError, asyncio.TimeoutError)
IsClientErrorOrStatus(kind) ==
    kind \in {"ClientError", "TimeoutError", "ContentTypeError", "non200"}
IsClientError(kind) ==
    kind \in {"ClientError", "TimeoutError", "ContentTypeError"}

\* the cache after a GET for key ended as kind, r being the decoded payload
CacheAfterNoWrite(cch, key, kind, r, t) == cch
CacheAfterKeepTimestamp(cch, key, kind, r, t) ==
    IF kind = "ok" THEN [cch EXCEPT ![key].data = r] ELSE cch
CacheAfterTouch(cch, key, kind, r, t) ==
    IF kind = "ok" THEN [cch EXCEPT ![key] = [data |-> r, timestamp |-> t]]
    ELSE [cch EXCEPT ![key].timestamp = t]
CacheAfter(cch, key, kind, r, t) ==
    IF kind = "ok" THEN [cch EXCEPT ![key] = [data |-> r, timestamp |-> t]]
    ELSE cch

\* cache_age, in seconds, at time t
CacheAge(cch, key, t) == (t - cch[key].timestamp) * ClockStep

\* what the final attempt returns after a network error or a timeout
FallbackWithinMaxAge(cch, key, t) ==
    IF cch[key].data # None /\ CacheAge(cch, key, t) > MAX_CACHE_AGE
    THEN None
    ELSE cch[key].data
Fallback(cch, key, t) == cch[key].data

\* the entry of the log for a GET that ended as kind
Class(kind) ==
    CASE kind = "ok" -> "ok"
      [] kind = "non200" -> "non200"
      [] OTHER -> "error"

\* except Exception as err
CatchesLookupErrors(e) == e \in {"KeyError", "TypeError", "AttributeError"}
Catches(e) == TRUE

\* no response yet: status, decoded body, time of arrival
NoResponse == [status |-> 0, body |-> None, at |-> 0]

\* the call of _fetch_with_retry(session, url, key): up to the first GET
BeginFetch(key) ==
    /\ cache_key' = key
    /\ attempt' = 0
    /\ data' = None
    /\ wait_time' = 0
    /\ response' = NoResponse
    /\ log' = <<>>
    /\ sleeps' = <<>>
    /\ pc' = "get"

\* the public method is left: the session closes, the frame of
\* _fetch_with_retry is gone
LeaveSessionOpen ==
    /\ pc' = "done"
    /\ session' = session
    /\ cache_key' = "none"
    /\ attempt' = 0
    /\ data' = None
    /\ wait_time' = 0
    /\ response' = NoResponse
    /\ log' = <<>>
    /\ sleeps' = <<>>
Leave ==
    /\ pc' = "done"
    /\ session' = "closed"
    /\ cache_key' = "none"
    /\ attempt' = 0
    /\ data' = None
    /\ wait_time' = 0
    /\ response' = NoResponse
    /\ log' = <<>>
    /\ sleeps' = <<>>

\* exception e is raised inside the try block of async_update or
\* get_locations_data: the handler logs it and the method returns
Except(e) ==
    /\ exc' = e
    /\ propagated' = (propagated \/ ~Catches(e))
    /\ Leave

\* one GET completes; the code runs on to its next suspension point
Get ==
    /\ pc = "get"
    /\ \E kind \in Kinds :
       \E body \in (IF kind = "ok" THEN Bodies(cache_key) ELSE {None}) :
        LET r == NewRef(cache_key) IN
        /\ kind = "ok" => served < MaxOk
        /\ served' = IF kind = "ok" THEN served + 1 ELSE served
        /\ cache' = CacheAfter(cache, cache_key, kind, r, now)
        /\ heap' = IF kind = "ok"
                   THEN Collect([heap EXCEPT ![r] = body], snapshot, cache')
                   ELSE heap
        /\ CASE kind = "ok" ->
                /\ data' = r
                /\ pc' = "returned"
                /\ response' = [status |-> Status(kind), body |-> body, at |-> now]
                /\ log' = Append(log, Class(kind))
                /\ UNCHANGED <<attempt, wait_time, sleeps, exc, propagated,
                               session, cache_key>>
             [] kind = "JSONDecodeError" ->
                Except("JSONDecodeError")
             [] IsClientError(kind) ->
                /\ wait_time' = WaitTime(attempt)
                /\ IF attempt < MAX_RETRIES - 1
                   THEN /\ sleeps' = Append(sleeps, wait_time')
                        /\ pc' = "sleep"
                        /\ UNCHANGED data
                   ELSE /\ data' = Fallback(cache, cache_key, now)
                        /\ pc' = "returned"
                        /\ UNCHANGED sleeps
                /\ response' = [status |-> Status(kind), body |-> body, at |-> now]
                /\ log' = Append(log, Class(kind))
                /\ UNCHANGED <<attempt, exc, propagated, session, cache_key>>
             [] OTHER ->
                /\ IF InRange(attempt + 1)
                   THEN /\ attempt' = attempt + 1
                        /\ pc' = "get"
                   ELSE /\ pc' = "returned"
                        /\ UNCHANGED attempt
                /\ response' = [status |-> Status(kind), body |-> body, at |-> now]
                /\ log' = Append(log, Class(kind))
                /\ UNCHANGED <<data, wait_time, sleeps, exc, propagated,
                               session, cache_key>>
        /\ offline' = (offline /\ kind = "ClientError")
    /\ UNCHANGED <<snapshot, now, caller, issued, start, nothing>>
    /\ UNCHANGED <<funVars, conVars, perVars>>

\* asyncio.sleep(wait_time) is over: the next iteration of the loop
Sleep ==
    /\ pc = "sleep"
    /\ IF InRange(attempt + 1)
       THEN /\ attempt' = attempt + 1
            /\ pc' = "get"
       ELSE /\ pc' = "returned"
            /\ UNCHANGED attempt
    /\ UNCHANGED <<snapshot, cache, heap, now, session, caller, cache_key, data,
                   wait_time, response, log, sleeps, issued, start, nothing,
                   exc, propagated, served, funVars, conVars, offline, perVars>>

\* time passes while the call is suspended, and between calls
Tick ==
    /\ pc \in {"idle", "done", "get", "sleep"}
    /\ now < MaxTime
    /\ now' = now + 1
    /\ UNCHANGED <<snapshot, cache, heap, session, caller, pc, cache_key,
                   attempt, data, wait_time, response, log, sleeps, issued,
                   start, nothing, exc, propagated, served, funVars, offline, perVars,
                   conVars>>

\* ------------------------------------------------------------------------
\* async_update and get_locations_data
\* ------------------------------------------------------------------------
\* if data:
HasUpdateAlways(x) == TRUE
HasUpdate(x) == Truthy(x)

\* the first endpoint async_update requests
FirstEndpointLocations(snap) == "locations"
FirstEndpoint(snap) ==
    IF snap["locations"] = None THEN "locations" ELSE "observations"

\* async_update is called: the session opens, the first fetch starts
AsyncUpdateCall ==
    /\ pc \in {"idle", "done"}
    /\ caller' = "async_update"
    /\ session' = "open"
    /\ start' = View(snapshot, heap)
    /\ nothing' = {}
    /\ exc' = "none"
    /\ issued' = <<FirstEndpoint(snapshot)>>
    /\ offline' = TRUE
    /\ BeginFetch(FirstEndpoint(snapshot))
    /\ UNCHANGED <<snapshot, cache, heap, now, propagated, served, funVars, perVars,
                   conVars>>

\* get_locations_data is called
GetLocationsDataCall ==
    /\ pc \in {"idle", "done"}
    /\ caller' = "get_locations_data"
    /\ session' = "open"
    /\ start' = View(snapshot, heap)
    /\ nothing' = {}
    /\ exc' = "none"
    /\ issued' = <<"locations">>
    /\ offline' = FALSE
    /\ BeginFetch("locations")
    /\ UNCHANGED <<snapshot, cache, heap, now, propagated, served, funVars, perVars,
                   conVars>>

\* the code after a fetch returned: the payload processed to res (assigned to
\* the snapshot field when assigned holds), then the fetch of the endpoint
\* next, or the return of the method
Proceeds(res) == res.exc = "none"
Continue(key, res, assigned, next) ==
    /\ snapshot' = IF assigned THEN [snapshot EXCEPT ![key] = data]
                   ELSE snapshot
    /\ heap' = Collect(IF data = None THEN heap
                       ELSE [heap EXCEPT ![data] = res.d], snapshot', cache)
    /\ nothing' = IF data = None THEN nothing \cup {key} ELSE nothing
    /\ IF ~Proceeds(res)
       THEN /\ Except(res.exc)
            /\ UNCHANGED issued
       ELSE IF next = "return"
       THEN /\ Leave
            /\ UNCHANGED <<exc, propagated, issued>>
       ELSE /\ BeginFetch(next)
            /\ issued' = Append(issued, next)
            /\ UNCHANGED <<exc, propagated, session>>
    /\ UNCHANGED <<cache, now, caller, start, served, funVars, conVars, offline, perVars>>

\* async_update, after the locations fetch
AfterLocations ==
    /\ pc = "returned" /\ caller = "async_update" /\ cache_key = "locations"
    /\ Continue("locations", Ok(Val(heap, data)),
                HasUpdate(Val(heap, data)), "observations")

\* async_update, after the observations fetch
AfterObservations ==
    /\ pc = "returned" /\ caller = "async_update" /\ cache_key = "observations"
    /\ IF HasUpdate(Val(heap, data))
       THEN Continue("observations", ProcessObservations(Val(heap, data)),
                     TRUE, "daily_forecasts")
       ELSE Continue("observations", Ok(Val(heap, data)), FALSE,
                     "daily_forecasts")

\* async_update, after the daily forecasts fetch
AfterDaily ==
    /\ pc = "returned" /\ caller = "async_update"
    /\ cache_key = "daily_forecasts"
    /\ IF HasUpdate(Val(heap, data))
       THEN LET r == ProcessDaily(Val(heap, daily_forecasts_data),
                                  Val(heap, data))
            IN  Continue("daily_forecasts", r, r.assigned, "hourly_forecasts")
       ELSE Continue("daily_forecasts", Ok(Val(heap, data)), FALSE,
                     "hourly_forecasts")

\* async_update, after the hourly forecasts fetch
AfterHourly ==
    /\ pc = "returned" /\ caller = "async_update"
    /\ cache_key = "hourly_forecasts"
    /\ IF HasUpdate(Val(heap, data))
       THEN Continue("hourly_forecasts", ProcessHourly(Val(heap, data)),
                     TRUE, "warnings")
       ELSE Continue("hourly_forecasts", Ok(Val(heap, data)), FALSE,
                     "warnings")

\* async_update, the processing of a warnings payload w: none
ProcessWarningsStamped(w) ==
    IF IsDict(w) THEN Ok(DictSet(w, "fetched", Bool(TRUE))) ELSE Ok(w)
ProcessWarnings(w) == Ok(w)

\* async_update, after the warnings fetch: the method returns
AfterWarnings ==
    /\ pc = "returned" /\ caller = "async_update" /\ cache_key = "warnings"
    /\ Continue("warnings", ProcessWarnings(Val(heap, data)),
                HasUpdate(Val(heap, data)), "return")

\* get_locations_data, after its fetch: the method returns
GetLocationsDataReturn ==
    /\ pc = "returned" /\ caller = "get_locations_data"
    /\ Continue("locations", Ok(Val(heap, data)), HasUpdate(Val(heap, data)),
                "return")

Next ==
    \/ AsyncUpdateCall
    \/ GetLocationsDataCall
    \/ Get
    \/ Sleep
    \/ Tick
    \/ AfterLocations
    \/ AfterObservations
    \/ AfterDaily
    \/ AfterHourly
    \/ AfterWarnings
    \/ GetLocationsDataReturn

Spec == Init /\ [][Next]_vars

\* The running call makes progress: every GET returns a response or fails,
\* every asyncio.sleep ends, and the event loop runs the code that follows
\* a fetch (the only steps of Next from a state with pc = "returned").
Resume == pc = "returned" /\ pc' \in {"get", "done"}
Progress == WF_vars(Get) /\ WF_vars(Sleep) /\ WF_pc(Resume)
SpecLive == Spec /\ Progress

TypeOK ==
    /\ pc \in {"idle", "get", "sleep", "returned", "done"}
    /\ attempt \in 0..MAX_RETRIES
    /\ now \in 1..MaxTime

\* ------------------------------------------------------------------------
\* The daily and hourly processing on their own: a previous snapshot and a
\* fetched payload are drawn, and the code that follows the fetch is applied
\* ------------------------------------------------------------------------
Icons == {"sunny", "mostly_sunny", "clear", "cloudy", "rain"}
IsNights == {Bool(TRUE), Bool(FALSE), None}
TempMins == {None, Num(110)}
TempMaxs == {None, Num(260)}
RainMins == {Num(0), Num(2)}
RainMaxs == {None, Num(8)}

\* the rain object of a forecast entry
Rain(rain_min, rain_max) ==
    Dict(("chance" :> Num(60)) @@
         ("amount" :> Dict(("min" :> rain_min) @@ ("max" :> rain_max) @@
                           ("units" :> Str("mm")))))

\* day 0 of a daily payload; has_now: the entry carries a `now` object
Day0(temp_min, temp_max, rain_min, rain_max, icon, has_now, is_night) ==
    LET e == DictSet(DailyEntry(temp_min, temp_max, rain_max, icon, FALSE),
                     "rain", Rain(rain_min, rain_max))
    IN  IF has_now
        THEN DictSet(e, "now", DictSet(e.v["now"], "is_night", is_night))
        ELSE DictSet(e, "now", None)

Day0s ==
    { Day0(temp_min, temp_max, rain_min, rain_max, icon, has_now, is_night) :
        temp_min \in TempMins, temp_max \in TempMaxs, rain_min \in RainMins,
        rain_max \in RainMaxs, icon \in Icons, has_now \in BOOLEAN,
        is_night \in IsNights }

\* a later day of a daily payload
LaterDay == Day0(Num(90), Num(200), Num(2), Num(8), "clear", FALSE, None)

\* the daily payloads the fetch returns
NewDailies ==
    {Dict("data" :> List(<<>>))}
    \cup {Dict("data" :> List(<<e>>)) : e \in Day0s}
    \cup {Dict("data" :> List(<<e, LaterDay>>)) : e \in Day0s}

\* the daily snapshots of an earlier cycle: none, no days, or a formatted one
OldDailies ==
    {None, Dict("data" :> List(<<>>))}
    \cup { format_daily_forecast_data(Dict("data" :> List(
               <<DailyEntry(temp_min, temp_max, Num(8), "cloudy", FALSE)>>))).d :
             temp_min \in {None, Num(120)}, temp_max \in {None, Num(250)} }

\* an entry of an hourly payload
Hour(rain_min, rain_max, icon, is_night) ==
    DictSet(DictSet(HourlyEntry(rain_max, icon, FALSE),
                    "rain", Rain(rain_min, rain_max)),
            "is_night", is_night)

Hours ==
    { Hour(rain_min, rain_max, icon, is_night) :
        rain_min \in RainMins, rain_max \in RainMaxs, icon \in Icons,
        is_night \in IsNights }

\* the hourly payloads the fetch returns
NewHourlies ==
    {Dict("data" :> List(<<>>))}
    \cup {Dict("data" :> List(<<e>>)) : e \in Hours}
    \cup {Dict("data" :> List(<<Hour(Num(2), Num(8), "rain", None), e>>)) :
             e \in Hours}

\* observations payloads: a field drawn as Absent is not in the payload
Absent == [t |-> "absent"]
Temps == {Absent, None, Str("n/a"), Num(2000), Num(2004), Num(-500),
          Num(-23770)}
Humidities == {Absent, None, Str("n/a"), Num(0), Num(-5), Num(35), Num(50),
               Num(100)}
Winds == {None, Dict(("direction" :> Str("N")) @@
                     ("speed_kilometre" :> Num(10)) @@
                     ("speed_knot" :> Num(5)))}
Gusts == {None, Dict(("speed_kilometre" :> Num(20)) @@
                     ("speed_knot" :> Num(11)))}
Observation(temp, humidity, wind, gust) ==
    LET all == ("temp" :> temp) @@ ("humidity" :> humidity) @@
               ("wind" :> wind) @@ ("gust" :> gust) @@
               ("station" :> Str("Sydney"))
    IN  Dict("data" :>
            Dict([key \in {y \in DOMAIN all : all[y] # Absent} |-> all[key]]))
NewObservations ==
    {Observation(temp, humidity, wind, gust) :
        temp \in Temps, humidity \in Humidities, wind \in Winds,
        gust \in Gusts}

\* coordinates, in units of 1e-4 degree: Sydney, Melbourne, Darwin, the
\* corners and the middle of the ranges, and points on and beside the lines
\* the bisection cuts at
Points ==
    {<<-338688, 1512093>>, <<-378136, 1449631>>, <<-124634, 1308456>>,
     <<0, 0>>, <<900000, 1800000>>, <<-900000, -1800000>>,
     <<28125, 56250>>, <<28126, 56251>>, <<-450000, 900000>>,
     <<1, -1>>, <<515074, -1278>>}
Precisions == 1..DEFAULT_PRECISION
\* geohashes a caller supplies: none, the empty string, and the first
\* characters of a 7-character geohash
Supplied ==
    {None} \cup
    {Text(SubSeq(<<"r", "3", "g", "x", "2", "f", "7">>, 1, n)) : n \in 0..7}
GeohashInputs ==
    {[fn |-> "encode", old |-> None,
      new |-> [latitude |-> Deg(pt[1]), longitude |-> Deg(pt[2]),
               precision |-> precision]] :
        pt \in Points, precision \in Precisions}
    \cup {[fn |-> "roundtrip", old |-> None,
           new |-> [latitude |-> Deg(pt[1]), longitude |-> Deg(pt[2])]] :
              pt \in Points}
    \cup {[fn |-> "construct", old |-> None,
           new |-> [latitude |-> Deg(pt[1]), longitude |-> Deg(pt[2]),
                    geohash |-> geohash]] :
              pt \in Points, geohash \in Supplied}

FormatInputs ==
    GeohashInputs \cup
    {[fn |-> "daily", old |-> old, new |-> new] :
        old \in OldDailies, new \in NewDailies}
    \cup {[fn |-> "hourly", old |-> None, new |-> new] : new \in NewHourlies}
    \cup {[fn |-> "observations", old |-> None, new |-> new] :
              new \in NewObservations}

InitFormat ==
    /\ Constructed /\ NoTasks /\ NoCoordinator
    /\ input \in FormatInputs
    /\ output = None

\* async_update, lines 264-292, on the drawn snapshot and payload: output is
\* the daily snapshot field afterwards and the exception raised
FormatDaily ==
    /\ input.fn = "daily" /\ output = None
    /\ output' =
          IF HasUpdate(input.new)
          THEN LET r == ProcessDaily(input.old, input.new)
               IN  [d |-> IF r.assigned THEN r.d ELSE input.old,
                    exc |-> r.exc]
          ELSE Ok(input.old)
    /\ UNCHANGED <<snapshot, cache, heap, now, session, caller, pc, cache_key,
                   attempt, data, wait_time, response, log, sleeps, issued,
                   start, nothing, exc, propagated, served, input, conVars, offline,
                   perVars>>

\* async_update, lines 298-300, on the drawn payload
FormatHourly ==
    /\ input.fn = "hourly" /\ output = None
    /\ output' =
          IF HasUpdate(input.new)
          THEN LET r == ProcessHourly(input.new)
               IN  [d |-> r.d, exc |-> r.exc]
          ELSE Ok(input.old)
    /\ UNCHANGED <<snapshot, cache, heap, now, session, caller, pc, cache_key,
                   attempt, data, wait_time, response, log, sleeps, issued,
                   start, nothing, exc, propagated, served, input, conVars, offline,
                   perVars>>

\* async_update, lines 216-259, on the drawn payload
FormatObservations ==
    /\ input.fn = "observations" /\ output = None
    /\ output' =
          IF HasUpdate(input.new)
          THEN ProcessObservations(input.new)
          ELSE Ok(input.old)
    /\ UNCHANGED <<snapshot, cache, heap, now, session, caller, pc, cache_key,
                   attempt, data, wait_time, response, log, sleeps, issued,
                   start, nothing, exc, propagated, served, input, conVars, offline,
                   perVars>>

\* geohash_encode on the drawn coordinates and precision
GeohashEncode ==
    /\ input.fn = "encode" /\ output = None
    /\ output' = Ok(geohash_encode(input.new.latitude, input.new.longitude,
                                   input.new.precision))
    /\ UNCHANGED <<snapshot, cache, heap, now, session, caller, pc, cache_key,
                   attempt, data, wait_time, response, log, sleeps, issued,
                   start, nothing, exc, propagated, served, input, conVars, offline,
                   perVars>>

\* geohash_encode, geohash_decode of the result, and geohash_encode of the
\* point decoded
GeohashRoundTrip ==
    /\ input.fn = "roundtrip" /\ output = None
    /\ LET geohash == geohash_encode(input.new.latitude,
                                     input.new.longitude, 6)
           decoded == geohash_decode(geohash)
       IN  output' = Ok([geohash |-> geohash, decoded |-> decoded,
                         again |-> geohash_encode(decoded.latitude,
                                                  decoded.longitude, 6)])
    /\ UNCHANGED <<snapshot, cache, heap, now, session, caller, pc, cache_key,
                   attempt, data, wait_time, response, log, sleeps, issued,
                   start, nothing, exc, propagated, served, input, conVars, offline,
                   perVars>>

\* Collector(latitude, longitude, geohash): output is the geohash field
Construct ==
    /\ input.fn = "construct" /\ output = None
    /\ output' = Ok(GeohashField(input.new.latitude, input.new.longitude,
                                 input.new.geohash))
    /\ UNCHANGED <<snapshot, cache, heap, now, session, caller, pc, cache_key,
                   attempt, data, wait_time, response, log, sleeps, issued,
                   start, nothing, exc, propagated, served, input, conVars, offline,
                   perVars>>

NextFormat ==
    \/ FormatDaily
    \/ FormatHourly
    \/ FormatObservations
    \/ GeohashEncode
    \/ GeohashRoundTrip
    \/ Construct

SpecFormat == InitFormat /\ [][NextFormat]_vars

\* ------------------------------------------------------------------------
\* Calls that overlap on one collector.  Neither Collector.async_update nor
\* its two callers (SensorBase.async_update, the coordinator's
\* _async_update_with_persistence) test whether a cycle is running, so a call
\* can start whenever the event loop runs its caller, which it can do while
\* another call is suspended at a GET or a sleep.  Payloads are tokens here:
\* the body of the n-th 200 response served, with the key it was requested
\* for, the time it arrived and the caller that received it.  What the
\* post-processing does to a payload is left out, but for the exception it
\* may raise.
\* ------------------------------------------------------------------------
Payload(n, key, at, by) ==
    [t |-> "payload", n |-> n, key |-> key, at |-> at, by |-> by]

\* the endpoint async_update requests after key, "return" after the last
Following(key) ==
    CASE key = "locations" -> "observations"
      [] key = "observations" -> "daily_forecasts"
      [] key = "daily_forecasts" -> "hourly_forecasts"
      [] key = "hourly_forecasts" -> "warnings"
      [] key = "warnings" -> "return"

\* the endpoints whose payload async_update post-processes
PostProcessed == {"observations", "daily_forecasts", "hourly_forecasts"}

\* the call of _fetch_with_retry(session, url, key) by a caller
FetchFrame(key) ==
    [pc |-> "get", cache_key |-> key, attempt |-> 0, data |-> None]

\* a caller calls Collector.async_update
OverlapCall(task) ==
    /\ tasks[task].pc = "idle"
    /\ tasks' = [tasks EXCEPT ![task] = FetchFrame(FirstEndpoint(snapshot))]
    /\ UNCHANGED <<snapshot, cache, heap, now, session, caller, pc, cache_key,
                   attempt, data, wait_time, response, log, sleeps, issued,
                   start, nothing, exc, propagated, served, funVars, offline,
                   perVars>>

\* the ways a GET ends, one for each branch of _fetch_with_retry (a timeout
\* and a rejected content type take the branch of ClientError)
Branches == Kinds \ {"TimeoutError", "ContentTypeError"}

\* one GET of a caller completes; its code runs on to the next suspension
OverlapGet(task) ==
    /\ tasks[task].pc = "get"
    /\ \E kind \in Branches :
        LET f == tasks[task]
            r == Payload(served + 1, f.cache_key, now, task)
        IN
        /\ kind = "ok" => served < MaxOk
        /\ served' = IF kind = "ok" THEN served + 1 ELSE served
        /\ cache' = CacheAfter(cache, f.cache_key, kind, r, now)
        /\ tasks' = [tasks EXCEPT ![task] =
              CASE kind = "ok" -> [f EXCEPT !.pc = "returned", !.data = r]
                [] kind = "JSONDecodeError" -> Idle
                [] IsClientError(kind) ->
                     IF f.attempt < MAX_RETRIES - 1
                     THEN [f EXCEPT !.pc = "sleep"]
                     ELSE [f EXCEPT !.pc = "returned",
                                    !.data = cache[f.cache_key].data]
                [] OTHER ->
                     IF InRange(f.attempt + 1)
                     THEN [f EXCEPT !.attempt = f.attempt + 1]
                     ELSE [f EXCEPT !.pc = "returned"]]
    /\ UNCHANGED <<snapshot, heap, now, session, caller, pc, cache_key,
                   attempt, data, wait_time, response, log, sleeps, issued,
                   start, nothing, exc, propagated, funVars, offline,
                   perVars>>

\* the sleep of a caller is over
OverlapSleep(task) ==
    /\ tasks[task].pc = "sleep"
    /\ tasks' = [tasks EXCEPT ![task] =
          IF InRange(tasks[task].attempt + 1)
          THEN [tasks[task] EXCEPT !.attempt = tasks[task].attempt + 1,
                                   !.pc = "get"]
          ELSE [tasks[task] EXCEPT !.pc = "returned"]]
    /\ UNCHANGED <<snapshot, cache, heap, now, session, caller, pc, cache_key,
                   attempt, data, wait_time, response, log, sleeps, issued,
                   start, nothing, exc, propagated, served, funVars, offline,
                   perVars>>

\* the code of async_update after a fetch returned: the assignment, the
\* post-processing (raised: it raises, which ends the cycle), then the next
\* fetch or the return
OverlapAfter(task) ==
    /\ tasks[task].pc = "returned"
    /\ LET f == tasks[task] IN
       \E raised \in BOOLEAN :
        /\ raised => (f.data # None /\ f.cache_key \in PostProcessed)
        /\ snapshot' = IF f.data # None
                       THEN [snapshot EXCEPT ![f.cache_key] = f.data]
                       ELSE snapshot
        /\ tasks' = [tasks EXCEPT ![task] =
              IF raised \/ Following(f.cache_key) = "return" THEN Idle
              ELSE FetchFrame(Following(f.cache_key))]
    /\ UNCHANGED <<cache, heap, now, session, caller, pc, cache_key, attempt,
                   data, wait_time, response, log, sleeps, issued, start,
                   nothing, exc, propagated, served, funVars, offline,
                   perVars>>

\* time passes while a caller is suspended
OverlapTick ==
    /\ \E task \in Tasks : tasks[task].pc \in {"get", "sleep"}
    /\ now < MaxTime
    /\ now' = now + 1
    /\ UNCHANGED <<snapshot, cache, heap, session, caller, pc, cache_key,
                   attempt, data, wait_time, response, log, sleeps, issued,
                   start, nothing, exc, propagated, served, funVars, conVars, offline,
                   perVars>>

NextOverlap ==
    \/ \E task \in Tasks : OverlapCall(task)
    \/ \E task \in Tasks : OverlapGet(task)
    \/ \E task \in Tasks : OverlapSleep(task)
    \/ \E task \in Tasks : OverlapAfter(task)
    \/ OverlapTick

SpecOverlap == Init /\ [][NextOverlap]_vars

\* ------------------------------------------------------------------------
\* The coordinator.  async_setup_entry runs the collector's first update
\* cycle, creates the coordinator and loads the temperatures it saved; from
\* then on a cycle is run by the coordinator's update, which restores and
\* saves today's temperatures, or by an entity directly.  Of a cycle the
\* daily forecast part is followed, in one step: its fetch ends with a 200
\* and a payload, or with a connection error on every attempt.
\* ------------------------------------------------------------------------
\* the day-0 temperatures the API returns
MinTemps == {None, Num(110), Num(120)}
MaxTemps == {None, Num(260)}
\* the daily payloads of the API, of one day entry
TempBodies ==
    { Dict("data" :> List(<<DailyEntry(tmin, tmax, Num(8), "sunny", FALSE)>>)) :
        tmin \in MinTemps, tmax \in MaxTemps }
\* what the storage holds when the entry is set up: nothing, or the
\* temperatures an earlier run saved
Stores ==
    { None,
      Dict("temp_min" :> Num(100)),
      Dict(("temp_min" :> Num(100)) @@ ("temp_max" :> Num(250))) }
\* x and "data" in x and len(x["data"]) > 0, and then x["data"][0]
HasToday(x) ==
    /\ Truthy(x) /\ IsDict(x) /\ Has(x, "data")
    /\ IsList(x.v["data"]) /\ Len(x.v["data"].v) > 0
Today(x) == x.v["data"].v[1]
\* how the daily fetch of a cycle ends
Outcomes == {"ok", "ClientError"}

\* _fetch_with_retry, lines 74-80 and 98-108, of the daily forecasts: the
\* payload it returns when the fetch ends as kind, and the heap with the
\* payload body of a 200 on it
Fetched(kind) ==
    IF kind = "ok" THEN NewRef("daily_forecasts")
    ELSE Fallback(cache, "daily_forecasts", now)
Received(kind, body) ==
    IF kind = "ok" THEN [heap EXCEPT ![NewRef("daily_forecasts")] = body]
    ELSE heap

\* async_update, lines 264-292, on the payload fetched: the payload
\* afterwards, the exception raised, and whether line 291 was reached
DailyResult(kind, body) ==
    IF HasUpdate(Val(Received(kind, body), Fetched(kind)))
    THEN ProcessDaily(Val(Received(kind, body), daily_forecasts_data),
                      Val(Received(kind, body), Fetched(kind)))
    ELSE [d |-> Val(Received(kind, body), Fetched(kind)), exc |-> "none",
          assigned |-> FALSE]

\* the heap after the daily part of the cycle
HeapAfter(kind, body, res) ==
    Collect(IF Fetched(kind) = None THEN Received(kind, body)
            ELSE [Received(kind, body) EXCEPT ![Fetched(kind)] = res.d],
            snapshot', cache')

\* the day-0 temperatures returned so far, after a fetch that ended as kind
ReturnedAfter(kind, body) ==
    IF kind = "ok"
    THEN [last_min |-> DictGet(Today(body), "temp_min"),
          last_max |-> DictGet(Today(body), "temp_max"),
          temp_min |-> IF DictGet(Today(body), "temp_min") # None
                       THEN DictGet(Today(body), "temp_min")
                       ELSE returned.temp_min,
          temp_max |-> IF DictGet(Today(body), "temp_max") # None
                       THEN DictGet(Today(body), "temp_max")
                       ELSE returned.temp_max]
    ELSE returned

\* the daily part of a cycle of the collector (lines 261-292), res being
\* what the processing of the payload gives
CollectorCycle(kind, body, res) ==
    /\ kind = "ok" => served < MaxDaily
    /\ served' = IF kind = "ok" THEN served + 1 ELSE served
    /\ snapshot' = IF res.assigned
                   THEN [snapshot EXCEPT !["daily_forecasts"] = Fetched(kind)]
                   ELSE snapshot
    /\ cache' = CacheAfter(cache, "daily_forecasts", kind,
                           NewRef("daily_forecasts"), now)
    /\ exc' = res.exc
    /\ returned' = ReturnedAfter(kind, body)
    /\ UNCHANGED <<now, session, caller, pc, cache_key, attempt, data,
                   wait_time, response, log, sleeps, issued, start, nothing,
                   propagated, funVars, conVars, offline>>

\* the payloads a fetch that ends as kind can return
Payloads(kind) == IF kind = "ok" THEN TempBodies ELSE {None}

\* async_setup_entry, lines 74-79: the first update cycle of the collector
SetupUpdate ==
    /\ coordinator.state = "none"
    /\ \E kind \in Outcomes : \E body \in Payloads(kind) :
       \E res \in {DailyResult(kind, body)} :
        /\ CollectorCycle(kind, body, res)
        /\ heap' = HeapAfter(kind, body, res)
    /\ coordinator' = [coordinator EXCEPT !.state = "updated"]

\* async_load_temps: if data: self._last_valid_temps = data
LoadedTemps(stored) == IF Truthy(stored) THEN stored ELSE EmptyDict

\* async_setup_entry, lines 81-82: the coordinator is created and loads the
\* temperatures
CreateCoordinator ==
    /\ coordinator.state = "updated"
    /\ coordinator' =
          [coordinator EXCEPT !.state = "ready",
                              !.last_valid_temps = LoadedTemps(coordinator.store)]
    /\ UNCHANGED <<snapshot, cache, heap, now, session, caller, pc, cache_key,
                   attempt, data, wait_time, response, log, sleeps, issued,
                   start, nothing, exc, propagated, served, funVars, conVars,
                   offline, returned>>

\* SensorBase.async_update: an entity runs a cycle of the collector
EntityUpdate ==
    /\ coordinator.state = "ready"
    /\ \E kind \in Outcomes : \E body \in Payloads(kind) :
       \E res \in {DailyResult(kind, body)} :
        /\ CollectorCycle(kind, body, res)
        /\ heap' = HeapAfter(kind, body, res)
    /\ UNCHANGED coordinator

\* _async_update_with_persistence, lines 235-246: today's temperature is
\* restored from the last valid one
RestoreTempNever(today, last_valid_temps, key) == today
RestoreTemp(today, last_valid_temps, key) ==
    IF DictGet(today, key) = None /\ DictGet(last_valid_temps, key) # None
    THEN DictSet(today, key, last_valid_temps.v[key])
    ELSE today

\* _async_update_with_persistence, lines 248-257: today's temperature differs
\* from the last valid one, and replaces it
TempChanged(today, last_valid_temps, key) ==
    /\ DictGet(today, key) # None
    /\ DictGet(last_valid_temps, key) # today.v[key]
SaveTemp(today, last_valid_temps, key) ==
    IF TempChanged(today, last_valid_temps, key)
    THEN DictSet(last_valid_temps, key, today.v[key])
    ELSE last_valid_temps

\* _async_update_with_persistence, lines 226-262, on the heap h and the
\* snapshot snap the cycle left: the heap and the last valid temperatures
\* afterwards, and temps_changed
Persistence(h, snap, last_valid_temps) ==
    LET ref == snap["daily_forecasts"]
        daily == Val(h, ref)
    IN  IF HasToday(daily)
        THEN LET today == RestoreTemp(RestoreTemp(Today(daily),
                                                  last_valid_temps, "temp_min"),
                                      last_valid_temps, "temp_max")
             IN  [heap |-> [h EXCEPT ![ref] =
                               DictSet(daily, "data",
                                   List([daily.v["data"].v EXCEPT ![1] = today]))],
                  last_valid_temps |->
                      SaveTemp(today,
                               SaveTemp(today, last_valid_temps, "temp_min"),
                               "temp_max"),
                  temps_changed |->
                      \/ TempChanged(today, last_valid_temps, "temp_min")
                      \/ TempChanged(today, last_valid_temps, "temp_max")]
        ELSE [heap |-> h, last_valid_temps |-> last_valid_temps,
              temps_changed |-> FALSE]

\* _async_update_with_persistence: a cycle of the collector, then the
\* restoring and the saving of today's temperatures
CoordinatorUpdate ==
    /\ coordinator.state = "ready"
    /\ \E kind \in Outcomes : \E body \in Payloads(kind) :
       \E res \in {DailyResult(kind, body)} :
        /\ CollectorCycle(kind, body, res)
        /\ \E h \in {HeapAfter(kind, body, res)} :
           \E after \in {Persistence(h, snapshot',
                                      coordinator.last_valid_temps)} :
            /\ heap' = after.heap
            /\ coordinator' =
                  [coordinator EXCEPT
                      !.last_valid_temps = after.last_valid_temps,
                      !.saved = after.temps_changed,
                      !.store = IF after.temps_changed
                                THEN after.last_valid_temps
                                ELSE coordinator.store]

InitCoordinator ==
    /\ Constructed /\ FormatIdle /\ NoTasks
    /\ returned = NoTemps
    /\ \E stored \in Stores : coordinator = NotCreated(stored)

NextCoordinator ==
    \/ SetupUpdate
    \/ CreateCoordinator
    \/ EntityUpdate
    \/ CoordinatorUpdate

SpecCoordinator == InitCoordinator /\ [][NextCoordinator]_vars

\* ------------------------------------------------------------------------
\* Properties
\* ------------------------------------------------------------------------
Range(q) == {q[i] : i \in 1..Len(q)}
Last(q) == q[Len(q)]

\* _fetch_with_retry has returned to its caller
Returned == pc = "returned"
\* a public method has returned to its caller
CycleOver == pc = "done"
\* no attempt of the call that returned got a 200 with a decodable body
NoneSucceeded == Returned /\ \A i \in 1..Len(log) : log[i] # "ok"

\* the sleeps the attempts logged in q ask for: 2^i after a network error or
\* timeout on attempt i (0-indexed), none after the final attempt
RECURSIVE BackoffOf(_, _)
BackoffOf(q, i) ==
    IF i > Len(q) \/ i > MAX_RETRIES - 1 THEN <<>>
    ELSE IF q[i] = "error" THEN <<RETRY_DELAY_BASE ^ (i - 1)>> \o BackoffOf(q, i + 1)
    ELSE BackoffOf(q, i + 1)

\* C1: when none of the attempts of a call succeeded, whatever the mix of
\* non-200 statuses and network errors, the call returns the cached payload
\* of its key (None when the cache entry is null).
C1_StaleCacheFallback ==
    NoneSucceeded => data = cache[cache_key].data

\* C2: when a cycle of async_update is over (no response body having failed
\* to decode), the endpoints observations, daily, hourly and warnings have
\* all been requested in it, whatever the fetches before them returned.
C2_LaterEndpointsIssued ==
    (CycleOver /\ caller = "async_update" /\ exc # "JSONDecodeError")
        => {"observations", "daily_forecasts", "hourly_forecasts", "warnings"}
               \subseteq Range(issued)

\* C3: when a cycle of async_update in which an exception was raised is
\* over, the five snapshot fields hold the values they held when it started.
C3_ExceptionLeavesSnapshot ==
    (CycleOver /\ caller = "async_update" /\ exc # "none")
        => View(snapshot, heap) = start

\* C4: no exception ever leaves async_update or get_locations_data.
C4_NothingPropagates == ~propagated

\* C4 witness: a call in which an exception was raised has returned normally
C4_Witness ==
    /\ CycleOver /\ exc # "none" /\ ~propagated
    /\ caller = "get_locations_data"

C6_BackoffByAttemptIndex ==
    /\ sleeps = BackoffOf(log, 1)
    /\ pc = "sleep" => /\ attempt < MAX_RETRIES - 1
                       /\ wait_time = RETRY_DELAY_BASE ^ attempt
                       /\ Last(sleeps) = wait_time
    /\ (Returned /\ log = <<"error", "error", "ok">>)
           => /\ sleeps = <<1, 2>>
              /\ Val(heap, data) = response.body

\* C6 witness: two network errors, then a 200 on the third attempt
C6_Witness ==
    /\ Returned /\ log = <<"error", "error", "ok">>
    /\ sleeps = <<1, 2>> /\ data # None

\* C7: a sleep only ever follows a network error or timeout, never a non-200
\* response: the call sleeps once per error on the attempts before the last,
\* and a call whose attempts were all non-200 has not slept.
C7_NoSleepAfterStatus ==
    /\ pc = "sleep" => Last(log) = "error"
    /\ Len(sleeps) = Cardinality({i \in 1..Len(log) :
                          i < MAX_RETRIES /\ log[i] = "error"})
    /\ (\A i \in 1..Len(log) : log[i] = "non200") => sleeps = <<>>

\* C7 witness: three non-200 responses, no sleep
C7_Witness ==
    /\ Returned /\ log = <<"non200", "non200", "non200">>
    /\ sleeps = <<>>

\* C8 as stated: a call issues between 1 and 3 GETs, and none after an
\* attempt that returned HTTP 200.
C8_NoGetAfter200 ==
    /\ Len(log) <= MAX_RETRIES
    /\ Returned => Len(log) >= 1
    /\ pc \in {"get", "sleep"} => response.status # 200

\* C8 amended: a call issues between 1 and 3 GETs, and none after an attempt
\* that returned HTTP 200 with a body that decoded.
C8_NoGetAfterDecoded200 ==
    /\ Len(log) <= MAX_RETRIES
    /\ Returned => Len(log) >= 1
    /\ pc = "get" => Len(log) = attempt /\ attempt < MAX_RETRIES
    /\ \A i \in 1..Len(log) : log[i] = "ok" => (i = Len(log) /\ Returned)

\* C8 witness: the third GET of a call got the 200, after a back-off sleep
C8_Witness ==
    /\ Returned /\ Len(log) = MAX_RETRIES /\ Last(log) = "ok"
    /\ sleeps # <<>>

\* C9: when a call returns after a 200 with a decodable body, it returns
\* that payload, and the cache entry of its key holds that payload with the
\* time of the response.
C9_FreshPayloadCached ==
    (Returned /\ Last(log) = "ok")
        => /\ data # None
           /\ Val(heap, data) = response.body
           /\ cache[cache_key] = [data |-> data, timestamp |-> response.at]

\* C9 witness: a 200 received after the clock has advanced
C9_Witness ==
    /\ Returned /\ Last(log) = "ok"
    /\ response.at > 1
    /\ cache[cache_key].timestamp = response.at

\* C10: when a call is over, the snapshot field of every endpoint whose
\* fetch returned None in it has the value it had when the call started.
C10_NothingLeavesField ==
    CycleOver => \A key \in nothing : Val(heap, snapshot[key]) = start[key]

\* C10 witness: a cycle in which one fetch returned None, no payload being
\* cached for it, and another endpoint's field was refreshed
C10_Witness ==
    /\ CycleOver /\ caller = "async_update"
    /\ \E key \in nothing : cache[key].data = None
    /\ \E key \in Keys : Val(heap, snapshot[key]) # start[key]

\* the endpoints in the order async_update requests them
Order == <<"locations", "observations", "daily_forecasts",
           "hourly_forecasts", "warnings">>
\* a public method is running: suspended, or between two suspensions
Running == pc \in {"get", "sleep", "returned"}
\* the payload x of endpoint key carries what its post-processing derives
Processed(key, x) ==
    CASE key = "observations" ->
            /\ Has(x, "data")
            /\ Has(x.v["data"], "dew_point") /\ Has(x.v["data"], "delta_t")
      [] key \in {"daily_forecasts", "hourly_forecasts"} ->
            /\ Has(x, "data") /\ IsList(x.v["data"])
            /\ \A i \in 1..Len(x.v["data"].v) :
                  /\ Has(x.v["data"].v[i], "mdi_icon")
                  /\ Has(x.v["data"].v[i], "rain_amount_range")
      [] OTHER -> TRUE

\* C11: a cycle of async_update requests the locations endpoint exactly when
\* locations_data was null when the cycle started; a cycle started with
\* locations_data non-null leaves locations_data as it was.
C11_LocationsOnlyWhenNull ==
    (caller = "async_update" /\ pc # "idle")
        => /\ ("locations" \in Range(issued)) <=> (start["locations"] = None)
           /\ start["locations"] # None
                  => Val(heap, locations_data) = start["locations"]

\* C11 witness: a cycle started with locations_data set has run through
\* without asking for the locations
C11_Witness ==
    /\ CycleOver /\ caller = "async_update"
    /\ start["locations"] # None
    /\ issued = SubSeq(Order, 2, 5)

\* C12: the endpoints a cycle has requested are a run of the fixed order
\* (from locations when locations_data was null, else from observations);
\* the only fetch not yet returned is that of the endpoint requested last,
\* and every endpoint requested before it whose fetch returned a payload has
\* that payload in its snapshot field, post-processing done.
C12_SequentialInOrder ==
    (caller = "async_update" /\ pc # "idle")
        => /\ Len(issued) >= 1
           /\ LET first == IF start["locations"] = None THEN 1 ELSE 2
              IN  issued = SubSeq(Order, first, first + Len(issued) - 1)
           /\ Running => cache_key = Last(issued)
           /\ Running =>
                \A i \in 1..(Len(issued) - 1) :
                    LET key == issued[i]
                    IN  (key \notin nothing /\ key # "locations")
                            => /\ snapshot[key] # None
                               /\ snapshot[key] = cache[key].data
                               /\ Processed(key, Val(heap, snapshot[key]))

\* C12 witness: the GET for the warnings is in flight, the fifth endpoint of
\* the cycle, an earlier endpoint having returned a fresh payload
C12_Witness ==
    /\ caller = "async_update" /\ pc = "get" /\ cache_key = "warnings"
    /\ issued = Order
    /\ \E key \in {"observations", "daily_forecasts", "hourly_forecasts"} :
          /\ key \notin nothing
          /\ Val(heap, snapshot[key]) # start[key]

\* C13: a session is open exactly while a public method runs: it opens in
\* the step that calls the method, every GET and sleep happens with it open,
\* and it is closed when the method has returned, by an exception or not.
C13_SessionScopedToCall ==
    /\ [](Running <=> session = "open")
    /\ [][/\ (session = "closed" /\ session' = "open")
                => (pc \in {"idle", "done"} /\ pc' = "get")
          /\ (session = "open" /\ session' = "closed")
                => (Running /\ pc' = "done")]_vars

\* C13 witness: a cycle of async_update was cut short by an exception after
\* its first endpoint, and the session is closed
C13_Witness ==
    /\ CycleOver /\ caller = "async_update" /\ exc # "none"
    /\ Len(issued) > 1
    /\ session = "closed"

\* C14: a snapshot field that holds a payload holds a payload after every
\* step: it never goes back to null.
C14_NeverBackToNull ==
    [][\A key \in Keys :
          snapshot[key] # None
              => /\ snapshot'[key] # None
                 /\ Val(heap', snapshot'[key]) \notin {None, Free}]_vars

\* C14 witness: a field was set when the cycle started, its fetch returned
\* nothing in the cycle, and the field is still set
C14_Witness ==
    /\ CycleOver
    /\ \E key \in nothing : start[key] # None /\ snapshot[key] # None

\* C17: when a cycle of async_update in which a 200 response failed to
\* decode is over, the endpoints after that one have been requested in it
\* (the warnings, the last of the order, among them).
C17_DecodeFailureKeepsCycle ==
    (CycleOver /\ caller = "async_update" /\ exc = "JSONDecodeError")
        => "warnings" \in Range(issued)

\* the payload or snapshot x has at least one entry
HasDays(x) ==
    /\ IsDict(x) /\ Has(x, "data")
    /\ IsList(x.v["data"]) /\ Len(x.v["data"].v) > 0
\* entry i (1-based) of the payload or snapshot x
Entry(x, i) == x.v["data"].v[i]
\* the formatter drawn has been applied
Formatted(fn) == input.fn = fn /\ output # None

\* C18: after the daily processing of a payload with a day entry, the
\* previous snapshot having a day entry too, the stored day-0 temp_min
\* (temp_max) is the payload's when that is non-null, the previous
\* snapshot's when the payload's is null and the previous is not, else null.
C18_TempPreserved ==
    (Formatted("daily") /\ HasDays(input.old) /\ HasDays(input.new))
        => /\ HasDays(output.d)
           /\ \A key \in {"temp_min", "temp_max"} :
                LET new == DictGet(Entry(input.new, 1), key)
                    old == DictGet(Entry(input.old, 1), key)
                    stored == DictGet(Entry(output.d, 1), key)
                IN  /\ new # None => stored = new
                    /\ (new = None /\ old # None) => stored = old
                    /\ (new = None /\ old = None) => stored = None

\* C18 witness: temp_min null in the payload is kept from the previous
\* snapshot, while temp_max comes from the payload
C18_Witness ==
    /\ Formatted("daily") /\ HasDays(input.old) /\ HasDays(input.new)
    /\ DictGet(Entry(input.new, 1), "temp_min") = None
    /\ DictGet(Entry(input.old, 1), "temp_min") = Num(120)
    /\ DictGet(Entry(output.d, 1), "temp_min") = Num(120)
    /\ DictGet(Entry(input.old, 1), "temp_max") = Num(250)
    /\ DictGet(Entry(output.d, 1), "temp_max") = Num(260)

\* the icon_descriptor the override rule gives
Rewritten(is_night, icon_desc) ==
    IF is_night = Bool(TRUE) /\ icon_desc \in {Str("sunny"), Str("mostly_sunny")}
    THEN Str("clear")
    ELSE IF is_night # Bool(TRUE) /\ icon_desc = Str("clear")
    THEN Str("sunny")
    ELSE icon_desc
\* is_night of day 0 of a daily payload: that of its `now` object
NowIsNight(e) ==
    IF IsDict(DictGet(e, "now")) THEN DictGet(e.v["now"], "is_night")
    ELSE None

\* C19: day 0 of the formatted daily forecast and every entry of the
\* formatted hourly forecast carry the icon_descriptor the override rule
\* gives for the entry's is_night and its descriptor in the payload.
C19_IconOverrideRule ==
    /\ (Formatted("daily") /\ HasDays(input.new))
          => /\ output.exc = "none"
             /\ DictGet(Entry(output.d, 1), "icon_descriptor")
                  = Rewritten(NowIsNight(Entry(input.new, 1)),
                              DictGet(Entry(input.new, 1), "icon_descriptor"))
    /\ (Formatted("hourly") /\ HasDays(input.new))
          => /\ output.exc = "none"
             /\ \A i \in 1..Len(input.new.v["data"].v) :
                  DictGet(Entry(output.d, i), "icon_descriptor")
                    = Rewritten(DictGet(Entry(input.new, i), "is_night"),
                                DictGet(Entry(input.new, i), "icon_descriptor"))

\* C19 witness: an hourly forecast whose second entry, with is_night null and
\* the descriptor "clear", was rewritten to "sunny"
C19_Witness ==
    /\ Formatted("hourly") /\ Len(input.new.v["data"].v) = 2
    /\ DictGet(Entry(input.new, 2), "is_night") = None
    /\ DictGet(Entry(input.new, 2), "icon_descriptor") = Str("clear")
    /\ DictGet(Entry(output.d, 2), "icon_descriptor") = Str("sunny")

\* U+2013, the en dash, written in ASCII
EN_DASH == "<en-dash>"
\* rain_amount_min / rain_amount_max of an entry of a payload
RainMin(e) == e.v["rain"].v["amount"].v["min"]
RainMax(e) == e.v["rain"].v["amount"].v["max"]

\* C20: every formatted entry whose rain_amount_min m and rain_amount_max x
\* are non-null has the rain_amount_range m, an en dash, x in the daily
\* forecast and m, " to ", x in the hourly forecast.
C20_RainRangeText ==
    \A fn \in {"daily", "hourly"} :
        (Formatted(fn) /\ HasDays(input.new))
            => \A i \in 1..Len(input.new.v["data"].v) :
                  LET m == RainMin(Entry(input.new, i))
                      x == RainMax(Entry(input.new, i))
                  IN  (m # None /\ x # None)
                        => DictGet(Entry(output.d, i), "rain_amount_range")
                             = Str(PyStr(m)
                                   \o (IF fn = "daily" THEN EN_DASH ELSE " to ")
                                   \o PyStr(x))

\* the callers that are inside async_update
InCycle == {task \in Tasks : tasks[task].pc # "idle"}

\* C15: at most one caller is inside async_update of the collector at any
\* time: no cycle begins while another is suspended at a GET or a sleep.
C15_OneCycleAtATime == Cardinality(InCycle) <= 1

C21_NullMaxTakesMin ==
    \A fn \in {"daily", "hourly"} :
        (Formatted(fn) /\ HasDays(input.new))
            => \A i \in 1..Len(input.new.v["data"].v) :
                  RainMax(Entry(input.new, i)) = None
                    => /\ output.exc = "none"
                       /\ DictGet(Entry(output.d, i), "rain_amount_max")
                            = RainMin(Entry(input.new, i))
                       /\ DictGet(Entry(output.d, i), "rain_amount_range")
                            = RainMin(Entry(input.new, i))
                       /\ DictGet(Entry(output.d, i), "rain_amount_min")
                            = RainMin(Entry(input.new, i))

\* C21 witness: a daily entry with rain_amount_min 2 and a null
\* rain_amount_max carries the number 2 as its range
C21_Witness ==
    /\ Formatted("daily") /\ HasDays(input.new)
    /\ RainMax(Entry(input.new, 1)) = None
    /\ RainMin(Entry(input.new, 1)) = Num(2)
    /\ DictGet(Entry(output.d, 1), "rain_amount_range") = Num(2)
    /\ DictGet(Entry(output.d, 1), "rain_amount_max") = Num(2)

\* C30: when a daily or hourly formatting pass has completed, every entry
\* of the snapshot has the mdi_icon the table gives for the icon_descriptor
\* the entry ends with.
C30_MdiIconOfFinalDescriptor ==
    \A fn \in {"daily", "hourly"} :
        (Formatted(fn) /\ HasDays(input.new) /\ output.exc = "none")
            => \A i \in 1..Len(output.d.v["data"].v) :
                  LET e == Entry(output.d, i)
                  IN  /\ Has(e, "mdi_icon") /\ Has(e, "icon_descriptor")
                      /\ e.v["icon_descriptor"].v \in DOMAIN MAP_MDI_ICON
                      /\ e.v["mdi_icon"]
                           = Str(MAP_MDI_ICON[e.v["icon_descriptor"].v])

\* C30 witness: an hourly entry whose descriptor was rewritten from "sunny"
\* to "clear" carries the icon of "clear"
C30_Witness ==
    /\ Formatted("hourly") /\ HasDays(input.new) /\ output.exc = "none"
    /\ DictGet(Entry(input.new, 1), "icon_descriptor") = Str("sunny")
    /\ DictGet(Entry(output.d, 1), "icon_descriptor") = Str("clear")
    /\ DictGet(Entry(output.d, 1), "mdi_icon") = Str(MAP_MDI_ICON["clear"])

\* the observation the drawn payload carries, and the one processing leaves
ObsIn == input.new.v["data"]
ObsOut == output.d.v["data"]
Observed == Formatted("observations")

\* C22: processing an observations payload completes; a null wind leaves
\* wind_direction, wind_speed_kilometre and wind_speed_knot "unavailable",
\* a null gust leaves gust_speed_kilometre and gust_speed_knot
\* "unavailable"; a non-null wind or gust object is removed and each of its
\* child keys k becomes wind_k or gust_k with the child's value.
C22_WindGustFlattened ==
    Observed =>
        /\ output.exc = "none"
        /\ \A parent \in {"wind", "gust"} :
              LET obj == ObsIn.v[parent]
                  Children == IF parent = "wind"
                              THEN {"direction", "speed_kilometre",
                                    "speed_knot"}
                              ELSE {"speed_kilometre", "speed_knot"}
              IN  IF obj = None
                  THEN \A k \in Children :
                          DictGet(ObsOut, parent \o "_" \o k)
                              = Str("unavailable")
                  ELSE /\ ~Has(ObsOut, parent)
                       /\ \A k \in DOMAIN obj.v :
                             /\ Has(ObsOut, parent \o "_" \o k)
                             /\ ObsOut.v[parent \o "_" \o k] = obj.v[k]

\* C22 witness: a null wind beside a gust object
C22_Witness ==
    /\ Observed
    /\ ObsIn.v["wind"] = None /\ ObsIn.v["gust"] # None
    /\ DictGet(ObsOut, "wind_direction") = Str("unavailable")
    /\ DictGet(ObsOut, "gust_speed_knot") = Num(11)
    /\ ~Has(ObsOut, "gust")

\* the dew point cannot be computed from the drawn temp and humidity
NoDewPoint ==
    \/ ~Has(ObsIn, "temp") \/ ~Has(ObsIn, "humidity")
    \/ ObsIn.v["temp"] = None \/ ObsIn.v["humidity"] = None
    \/ ~IsNum(ObsIn.v["temp"]) \/ ~IsNum(ObsIn.v["humidity"])
    \/ ObsIn.v["humidity"].v <= 0
    \/ ObsIn.v["temp"].v = -23770

\* C23: when temp or humidity is absent, null or not a number, or humidity
\* is zero or negative, or the denominator is zero, dew_point is null,
\* nothing is raised and the cycle goes on to the next endpoint.
C23_DewPointNullNoRaise ==
    (Observed /\ NoDewPoint)
        => /\ Has(ObsOut, "dew_point") /\ ObsOut.v["dew_point"] = None
           /\ Proceeds(output)

\* C23 witness: humidity 0 beside a temperature of 20.0
C23_Witness ==
    /\ Observed
    /\ DictGet(ObsIn, "temp") = Num(2000)
    /\ DictGet(ObsIn, "humidity") = Num(0)
    /\ Has(ObsOut, "dew_point") /\ ObsOut.v["dew_point"] = None
    /\ Proceeds(output)

\* round(b * gamma / (a - gamma), 1) with a = 17.27, b = 237.7 and
\* gamma = a * T / (b + T) + ln(RH / 100), in hundredths of a degree, for
\* the temperatures and humidities drawn
DewPointTable ==
    (<<2000, 35>> :> 410) @@ (<<2000, 50>> :> 930) @@
    (<<2000, 100>> :> 2000) @@
    (<<2004, 35>> :> 410) @@ (<<2004, 50>> :> 930) @@
    (<<2004, 100>> :> 2000) @@
    (<<-500, 35>> :> -1810) @@ (<<-500, 50>> :> -1380) @@
    (<<-500, 100>> :> -500)

\* C24: for a numeric temp T and a numeric humidity RH > 0 the dew point is
\* the Magnus-Tetens value rounded to 1 decimal; T = 20.0 and RH = 50 give
\* 9.3.
C24_DewPointFormula ==
    (Observed /\ ~NoDewPoint)
        => /\ output.exc = "none"
           /\ <<ObsIn.v["temp"].v, ObsIn.v["humidity"].v>>
                 \in DOMAIN DewPointTable
           /\ DictGet(ObsOut, "dew_point")
                 = Num(DewPointTable[<<ObsIn.v["temp"].v,
                                       ObsIn.v["humidity"].v>>])

\* C24 witness: T = 20.0 and RH = 50 give 9.3
C24_Witness ==
    /\ Observed
    /\ DictGet(ObsIn, "temp") = Num(2000)
    /\ DictGet(ObsIn, "humidity") = Num(50)
    /\ DictGet(ObsOut, "dew_point") = Num(930)

\* C25: delta_t is null exactly when temp or dew_point is null, and is
\* otherwise temp - dew_point rounded to 1 decimal.
C25_DeltaT ==
    Observed =>
        /\ output.exc = "none" /\ Has(ObsOut, "delta_t")
        /\ Has(ObsOut, "dew_point")
        /\ LET temp == DictGet(ObsOut, "temp")
               dew_point == ObsOut.v["dew_point"]
               diff == temp.v - dew_point.v
           IN  /\ ObsOut.v["delta_t"] = None
                    <=> (temp = None \/ dew_point = None)
               /\ ObsOut.v["delta_t"] # None
                    => /\ ObsOut.v["delta_t"].v % 10 = 0
                       /\ 2 * (ObsOut.v["delta_t"].v - diff) \in -10..10

\* C25 witness: temp 20.04 and dew point 9.3 give delta_t 10.7
C25_Witness ==
    /\ Observed
    /\ DictGet(ObsOut, "temp") = Num(2004)
    /\ DictGet(ObsOut, "dew_point") = Num(930)
    /\ DictGet(ObsOut, "delta_t") = Num(1070)

\* The reference geohash: the number of the cell of a 2^16-cell axis the
\* coordinate falls in (a coordinate on a cell's lower edge belongs to the
\* cell below), its leading bits interleaved longitude first, 5 bits to a
\* character of the alphabet.
Alphabet == <<"0", "1", "2", "3", "4", "5", "6", "7", "8", "9", "b", "c",
              "d", "e", "f", "g", "h", "j", "k", "m", "n", "p", "q", "r",
              "s", "t", "u", "v", "w", "x", "y", "z">>
CellOf(coordinate, axis) ==
    LET x == IF axis = "lon" THEN (coordinate.v + 1800000) * 512
             ELSE (coordinate.v + 900000) * 1024
        t == (x - 1) \div 28125
    IN  IF t < 0 THEN 0 ELSE t
\* bit i (from 0) of the interleaving
ReferenceBit(latitude, longitude, i) ==
    IF i % 2 = 0
    THEN (CellOf(longitude, "lon") \div 2 ^ (15 - i \div 2)) % 2
    ELSE (CellOf(latitude, "lat") \div 2 ^ (15 - i \div 2)) % 2
ReferenceGeohash(latitude, longitude, p) ==
    [j \in 1..p |->
        Alphabet[1 + 16 * ReferenceBit(latitude, longitude, 5 * j - 5)
                   + 8 * ReferenceBit(latitude, longitude, 5 * j - 4)
                   + 4 * ReferenceBit(latitude, longitude, 5 * j - 3)
                   + 2 * ReferenceBit(latitude, longitude, 5 * j - 2)
                   + ReferenceBit(latitude, longitude, 5 * j - 1)]]

\* C26: encoding, at precision 6, the point geohash_decode returns for
\* geohash_encode(lat, lon, 6) gives the same geohash again, and the point
\* is the centre of the cell the coordinates fall in.
C26_GeohashRoundTrip ==
    Formatted("roundtrip")
        => /\ output.d.again = output.d.geohash
           /\ output.d.decoded.latitude =
                 Grid(2 * (CellOf(input.new.latitude, "lat") \div 2) + 1)
           /\ output.d.decoded.longitude =
                 Grid(2 * (CellOf(input.new.longitude, "lon") \div 2) + 1)

\* C26 witness: Sydney goes to r3gx2f, to the centre of that cell, and to
\* r3gx2f again
C26_Witness ==
    /\ Formatted("roundtrip")
    /\ input.new.latitude = Deg(-338688)
    /\ input.new.longitude = Deg(1512093)
    /\ output.d.geohash = <<"r", "3", "g", "x", "2", "f">>
    /\ output.d.again = <<"r", "3", "g", "x", "2", "f">>
    /\ output.d.decoded.longitude # input.new.longitude

\* C27: geohash_encode returns exactly p characters of the alphabet, the
\* ones the reference algorithm gives; (-33.8688, 151.2093) at precision 6
\* gives r3gx2f.
C27_GeohashEncodeReference ==
    Formatted("encode")
        => /\ Len(output.d) = input.new.precision
           /\ \A j \in 1..Len(output.d) : output.d[j] \in Range(Alphabet)
           /\ output.d = ReferenceGeohash(input.new.latitude,
                                          input.new.longitude,
                                          input.new.precision)
           /\ (/\ input.new.latitude = Deg(-338688)
               /\ input.new.longitude = Deg(1512093)
               /\ input.new.precision = 6)
                 => output.d = <<"r", "3", "g", "x", "2", "f">>

\* C27 witness: Melbourne at precision 4
C27_Witness ==
    /\ Formatted("encode")
    /\ input.new.latitude = Deg(-378136)
    /\ input.new.longitude = Deg(1449631)
    /\ input.new.precision = 4
    /\ output.d = <<"r", "1", "r", "0">>

\* C28: whatever the constructor is given, coordinates alone or with a
\* geohash of any length, the geohash field has exactly 6 characters.
C28_GeohashFieldSixChars ==
    Formatted("construct") => Len(output.d) = 6

\* the warnings fetch of a cycle has returned a payload
WarningsReturned ==
    /\ pc = "returned" /\ caller = "async_update" /\ cache_key = "warnings"
    /\ data # None
\* the cycle ends with warnings_data being the payload the fetch returned,
\* unchanged, and the cache entry of warnings holding the same payload
WarningsStored ==
    /\ pc' = "done"
    /\ warnings_data' = data
    /\ Val(heap', data) = Val(heap, data)
    /\ cache'["warnings"].data = warnings_data'

\* C29, as stated: after a cycle whose warnings fetch returned a payload,
\* warnings_data is exactly that payload and equals the cached warnings
\* payload.
C29_WarningsVerbatim == [][WarningsReturned => WarningsStored]_vars

\* C29, amended: after a cycle whose warnings fetch returned a non-empty
\* payload, warnings_data is exactly that payload and equals the cached
\* warnings payload.
C29_NonEmptyWarningsVerbatim ==
    [][(WarningsReturned /\ Truthy(Val(heap, data))) => WarningsStored]_vars

\* C29 witness: a cycle is over, the warnings fetch of which returned a
\* payload the snapshot did not hold before, and warnings_data is the cached
\* payload, a body as the API served it
C29_Witness ==
    /\ CycleOver /\ caller = "async_update"
    /\ issued = Order /\ "warnings" \notin nothing
    /\ warnings_data # None /\ warnings_data = cache["warnings"].data
    /\ Val(heap, warnings_data) # start["warnings"]
    /\ Val(heap, warnings_data) \in WarningsBodies \ {EmptyDict}

\* the fetch of a post-processed endpoint has returned, after no 200, the
\* cached payload, which an earlier cycle post-processed
StaleReturned ==
    /\ pc = "returned" /\ caller = "async_update"
    /\ cache_key \in {"observations", "daily_forecasts", "hourly_forecasts"}
    /\ NoneSucceeded /\ data # None /\ data = cache[cache_key].data
    /\ Processed(cache_key, Val(heap, data))

\* C31: when a fetch returns the stale cached payload of observations,
\* daily forecasts or hourly forecasts, the post-processing of the cycle
\* raises nothing and leaves the snapshot field's content as it was when the
\* cycle started.
C31_StaleReprocessed ==
    [][StaleReturned
          => /\ exc' = "none"
             /\ Val(heap', snapshot'[cache_key]) = start[cache_key]]_vars

\* no public method is running
BetweenCycles == pc \in {"idle", "done"}

FellBack ==
    /\ Returned /\ Len(log) = MAX_RETRIES /\ Last(log) = "error"
    /\ cache[cache_key].data # None

\* C34: the fallback returns the cached payload whatever its age, also when
\* more than MAX_CACHE_AGE seconds have passed since its timestamp.
C34_FallbackHasNoAgeLimit ==
    FellBack => data = cache[cache_key].data

\* C34 witness: the payload returned was cached more than MAX_CACHE_AGE
\* seconds ago
C34_Witness ==
    /\ FellBack
    /\ CacheAge(cache, cache_key, now) > MAX_CACHE_AGE
    /\ data = cache[cache_key].data

RECURSIVE Sum(_)
Sum(q) == IF q = <<>> THEN 0 ELSE q[1] + Sum(Tail(q))

\* the GETs and the sleeps of the running cycle cannot exceed these: every
\* fetch before the running one made at most MAX_RETRIES GETs and
\* MAX_RETRIES - 1 sleeps
GetsAtMost == MAX_RETRIES * (Len(issued) - 1) + Len(log)
SleepsAtMost == (MAX_RETRIES - 1) * (Len(issued) - 1) + Len(sleeps)

\* C35: a call of async_update returns; it requests each endpoint at most
\* once, makes at most 3 GETs and 2 sleeps of 3 seconds in all for an
\* endpoint, and so at most 15 GETs and 10 sleeps.
C35_CycleTerminates ==
    /\ [](caller = "async_update" /\ Running
            => /\ Len(issued) <= 5
               /\ \A i, j \in 1..Len(issued) : issued[i] = issued[j] => i = j
               /\ Len(log) <= 3 /\ Len(sleeps) <= 2 /\ Sum(sleeps) <= 3
               /\ GetsAtMost <= 15 /\ SleepsAtMost <= 10)
    /\ (caller = "async_update" /\ Running) ~> CycleOver

\* C35 witness: the fifth fetch of a cycle has made its third GET, after
\* two sleeps
C35_Witness ==
    /\ caller = "async_update" /\ Returned
    /\ Len(issued) = 5 /\ Len(log) = 3 /\ sleeps = <<1, 2>>

\* async_setup_entry, lines 76-79: ConfigEntryNotReady is raised from a
\* ClientConnectorError that leaves collector.async_update()
ConfigEntryNotReady == propagated /\ exc = "ClientError"
\* async_setup_entry, line 81: the coordinator is created when nothing was
\* raised before
CoordinatorCreated == ~propagated
\* the first update cycle of the collector is over, all five endpoints were
\* requested and every GET ended with a connection error
CannotConnect ==
    /\ caller = "async_update" /\ CycleOver
    /\ served = 0 /\ offline
    /\ issued = Order /\ nothing = Keys

\* C37: when the collector's initial async_update cannot connect to the API
\* (a connection error on every attempt of every endpoint), async_setup_entry
\* raises ConfigEntryNotReady and does not create the coordinator.
C37_SetupNotReady ==
    CannotConnect => ConfigEntryNotReady /\ ~CoordinatorCreated

\* day 0 of the daily snapshot snap on the heap h
SnapshotToday(h, snap) == Today(Val(h, snap["daily_forecasts"]))
\* temperature key of day 0 is the most recent one the API returned that was
\* not null, and is null only if there is none
MostRecent(today, temps, key) ==
    /\ temps[key] # None => DictGet(today, key) = temps[key]
    /\ DictGet(today, key) = None => temps[key] = None
\* a cycle received a daily payload and processed it without an exception
DailyRefreshed == served' = served + 1 /\ exc' = "none"

\* C33: after a successful daily refresh, day 0 of the snapshot has as
\* temp_min the most recent temp_min that the API returned for day 0 and that
\* was not null, and a null temp_min only if the API never returned one
\* (likewise temp_max); every daily payload has a day entry.
C33_TempsMostRecentReturned ==
    [][DailyRefreshed
         => /\ HasToday(Val(heap', snapshot'["daily_forecasts"]))
            /\ MostRecent(SnapshotToday(heap', snapshot'), returned', "temp_min")
            /\ MostRecent(SnapshotToday(heap', snapshot'), returned', "temp_max")]_vars

\* C33 witness: the last daily payload had a null temp_min and a temp_max for
\* day 0, and the snapshot shows the temp_min of an earlier payload
C33_Witness ==
    /\ served >= 2 /\ exc = "none"
    /\ returned.last_min = None /\ returned.last_max # None
    /\ returned.temp_min # None
    /\ HasToday(Val(heap, daily_forecasts_data))
    /\ DictGet(SnapshotToday(heap, snapshot), "temp_min") = returned.temp_min
    /\ DictGet(SnapshotToday(heap, snapshot), "temp_max") = returned.last_max

\* after an update of the coordinator: the last valid temperature key, if
\* held, is shown for day 0, and what day 0 shows is the last valid one
Persisted(today, last_valid_temps, key) ==
    /\ DictGet(last_valid_temps, key) # None => DictGet(today, key) # None
    /\ DictGet(today, key) # None
         => DictGet(last_valid_temps, key) = DictGet(today, key)
\* one of the last valid temperatures changed in the step
LastValidChanged ==
    \E key \in {"temp_min", "temp_max"} :
        DictGet(coordinator'.last_valid_temps, key)
            # DictGet(coordinator.last_valid_temps, key)

\* C36: after a run of the coordinator's update that leaves a day entry in
\* the daily snapshot, day 0 has a temp_min whenever the coordinator holds a
\* last valid temp_min, and the last valid temp_min is that of day 0
\* whenever day 0 has one (likewise temp_max); the run saves the last valid
\* temperatures to storage if and only if one of them changed.
C36_TempsPersisted ==
    [][CoordinatorUpdate /\ HasToday(Val(heap', snapshot'["daily_forecasts"]))
         => /\ Persisted(SnapshotToday(heap', snapshot'),
                          coordinator'.last_valid_temps, "temp_min")
            /\ Persisted(SnapshotToday(heap', snapshot'),
                          coordinator'.last_valid_temps, "temp_max")
            /\ coordinator'.saved <=> LastValidChanged
            /\ coordinator'.saved
                 => coordinator'.store = coordinator'.last_valid_temps]_vars

\* C36 witness: the coordinator's update has saved a temp_max and a temp_min
\* other than the one loaded from storage, and a cycle since has returned a
\* null temp_min that was replaced
C36_Witness ==
    /\ coordinator.state = "ready"
    /\ coordinator.store # None
    /\ DictGet(coordinator.store, "temp_max") = Num(260)
    /\ DictGet(coordinator.store, "temp_min") \in {Num(110), Num(120)}
    /\ ~coordinator.saved
    /\ returned.last_min = None
    /\ DictGet(SnapshotToday(heap, snapshot), "temp_min")
         = DictGet(coordinator.last_valid_temps, "temp_min")

====
